---- MODULE Spec2Model ----
(***************************************************************************)
(* Checkout engine of the component version-control core: per-component    *)
(* status classification, three-way merge of modified components, apply,   *)
(* write-back and removal (CheckoutMain in src/unnamed/part_000).          *)
(***************************************************************************)
EXTENDS Integers, Sequences, FiniteSets, TLC

\* ------------------------------------------------------------------ bounds

MaxVer == 2

\* ------------------------------------------------------------- vocabulary

\* a version that is `undefined` in the code (no version in the id)
NoVersion == 0

Versions == 1..MaxVer

\* the components of the workspace, in the order loadComponents returns them
ComponentOrder == <<"c1", "c2">>

Comps == {ComponentOrder[i] : i \in 1..Len(ComponentOrder)}

MergeStrategies == {"ours", "theirs", "manual"}

NoStrategy == "none"

\* failure messages of getComponentStatusBeforeMergeAttempt
MsgNewNoModel == "is new, no version to checkout"
MsgDuringMerge == "is in during-merge state"
MsgNoVersion == "doesn't have version"
MsgNew == "is new"
MsgAlreadyAtVersion == "is already at version"
MsgAlreadyLatest == "is already at the latest version"
MsgMergePending == "is merge-pending and cannot be checked out"
MsgNotModified == "is not modified"
MsgRemoved == "component has been removed"
NoMsg == ""

ErrConflict == "automatic merge has failed"
ErrNoRef == "unable to get ref"
NoErr == ""

VARIABLES
  models,               \* scope: component -> ModelComponent (or none)
  unmergedComponents,   \* scope: components with an entry in the unmerged list
  diverged,             \* scope: components whose local and remote head diverged
  currentLane,          \* scope: the active lane and the components it holds, if any
  bitMap,               \* workspace: component -> checked-out version
  workspaceIds,         \* workspace: the components the bitmap tracks
  modified,             \* workspace: components whose files differ from bitMap's version
  pc,                   \* "idle" | "applying" | "done"
  props,                \* the CheckoutProps of the checkout in `result`
  pre,                  \* the workspace as it was when checkout was called
  statuses,             \* what getComponentStatusBeforeMergeAttempt gave per component
  calls,                \* the external calls checkout made, in order
  result,               \* what checkout returned or threw
  toApply,              \* mapSeries: the succeeded components, in the order given
  inProgress,           \* mapSeries: components whose applyVersion has not resolved
  completed,            \* mapSeries: components whose applyVersion resolved, in order
  visible,              \* per component, the applies that had resolved when its own began
  cliArgs,              \* what checkoutByCLIValues was called with
  parsed,               \* what parseValues made of it
  versions,             \* VersionHistory: the entries, in array order
  graphCompleteRefs,    \* VersionHistory: refs memoized as complete, in array order
  hasChanged,           \* VersionHistory: changed since the last persist
  lastCall,             \* VersionHistory: the last method called and what it returned
  lane,                 \* Lane: the instance, if one was created
  laneCall,             \* Lane: the last method called, its arguments and what it returned
  laneChecks,           \* Lane: the per-component checks of getMergedAndUnmergedIds
  wsPolicy,             \* workspace config: the dependency policy, once loaded
  wsJsonc,              \* workspace config: the content of the workspace.jsonc file
  mergerCall,           \* ConfigMerger: the last method called, its arguments and results
  pipeline              \* checkout, step by step: its position and the steps begun and ended

vars == <<models, unmergedComponents, diverged, currentLane, bitMap, workspaceIds, modified,
          pc, props, pre, statuses, calls, result,
          toApply, inProgress, completed, visible, cliArgs, parsed,
          versions, graphCompleteRefs, hasChanged, lastCall,
          lane, laneCall, laneChecks,
          wsPolicy, wsJsonc, mergerCall,
          pipeline>>

applyVars == <<toApply, inProgress, completed, visible>>

cliVars == <<cliArgs, parsed>>

historyVars == <<versions, graphCompleteRefs, hasChanged, lastCall>>

laneVars == <<lane, laneCall, laneChecks>>

mergerVars == <<wsPolicy, wsJsonc, mergerCall>>

pipelineVars == <<pipeline>>

checkoutVars == <<models, unmergedComponents, diverged, currentLane, bitMap, workspaceIds,
                  modified, pc, props, pre, statuses, calls, result,
                  toApply, inProgress, completed, visible, cliArgs, parsed>>

scopeVars == <<models, unmergedComponents, diverged, currentLane>>

\* ------------------------------------------------------- ModelComponent

NoModel == [exists |-> FALSE, versions |-> {}, head |-> NoVersion,
            latest |-> NoVersion, removed |-> {}]

\* a component with every version 1..MaxVer, the newest being the head: the
\* head is a tag, or a snap on top of the tags, or a snap that marks the
\* component as removed
FullModels ==
  { [exists |-> TRUE, versions |-> Versions, head |-> MaxVer, latest |-> MaxVer,
     removed |-> {}],
    [exists |-> TRUE, versions |-> Versions, head |-> MaxVer, latest |-> MaxVer - 1,
     removed |-> {}],
    [exists |-> TRUE, versions |-> Versions, head |-> MaxVer, latest |-> MaxVer - 1,
     removed |-> {MaxVer}] }

\* a component that has snaps only and lacks the newest version
ShortModel ==
  [exists |-> TRUE, versions |-> 1..(MaxVer - 1), head |-> MaxVer - 1,
   latest |-> NoVersion, removed |-> {}]

\* the models the scope may hold for a component
ModelComponents == {NoModel, ShortModel} \cup FullModels

headIncludeRemote(m) == m.head

latestVersionIfExist(m) == m.latest

hasVersion(m, v) == v \in m.versions

getRef(m, v) == IF v \in m.versions THEN v ELSE NoVersion

isRemoved(m, v) == v \in m.removed

\* ------------------------------------------------------------ CheckoutProps

NoProps == [head |-> FALSE, latest |-> FALSE, reset |-> FALSE, version |-> NoVersion,
            hasVersionPerId |-> FALSE, versionPerId |-> [c \in Comps |-> NoVersion],
            mergeStrategy |-> NoStrategy, promptMergeOptions |-> FALSE,
            skipUpdatingBitmap |-> FALSE, workspaceOnly |-> FALSE, all |-> FALSE]

\* the version versionPerId holds for a component, NoVersion when it has no entry
VersionPerIdMaps == [Comps -> {NoVersion} \cup Versions]

\* the targets a caller asks for: head, latest, reset, a literal version, or a
\* version per component id
Targets ==
  {[NoProps EXCEPT !.head = TRUE], [NoProps EXCEPT !.latest = TRUE],
   [NoProps EXCEPT !.reset = TRUE]}
  \cup {[NoProps EXCEPT !.version = v] : v \in Versions}
  \cup {[NoProps EXCEPT !.hasVersionPerId = TRUE, !.versionPerId = m] : m \in VersionPerIdMaps}

\* a target, with or without skipUpdatingBitmap
TargetProps ==
  {[t EXCEPT !.skipUpdatingBitmap = skip] : t \in Targets, skip \in BOOLEAN}

\* mergeStrategy and promptMergeOptions, as the caller may set them
MergeOptions ==
  {<<NoStrategy, FALSE>>, <<NoStrategy, TRUE>>, <<"ours", FALSE>>, <<"theirs", FALSE>>,
   <<"manual", FALSE>>}

withMergeOptions(t, o) == [t EXCEPT !.mergeStrategy = o[1], !.promptMergeOptions = o[2]]

\* ------------------------------------ getComponentStatusBeforeMergeAttempt

returnFailure(c, msg, legit) ==
  [id |-> c, version |-> bitMap[c], failureMessage |-> msg,
   unchangedLegitimately |-> legit, shouldBeRemoved |-> FALSE,
   propsForMerge |-> FALSE, currentlyUsedVersion |-> NoVersion,
   currentComponent |-> "", error |-> NoErr, merged |-> FALSE,
   baseVersion |-> NoVersion, hasConflicts |-> FALSE]

\* getNewVersion with head answered by the latest tag
getNewVersionTagForHead(c, p) ==
  IF p.reset THEN bitMap[c]
  ELSE IF p.head \/ p.latest
    THEN IF latestVersionIfExist(models[c]) # NoVersion
           THEN latestVersionIfExist(models[c])
           ELSE headIncludeRemote(models[c])
  ELSE IF p.hasVersionPerId THEN p.versionPerId[c]
  ELSE p.version

getNewVersion(c, p) ==
  IF p.reset THEN bitMap[c]
  ELSE IF p.head THEN headIncludeRemote(models[c])
  ELSE IF p.latest
    THEN IF latestVersionIfExist(models[c]) # NoVersion
           THEN latestVersionIfExist(models[c])
           ELSE headIncludeRemote(models[c])
  ELSE IF p.hasVersionPerId THEN p.versionPerId[c]
  ELSE p.version

isNewNoModel(c) == ~models[c].exists

\* the during-merge test with its reset guard inverted
isDuringMergeResetOnly(c, p) == p.reset /\ c \in unmergedComponents

isDuringMerge(c, p) == ~p.reset /\ c \in unmergedComponents

\* the missing-version test with the negation of headVersion lost
isMissingVersionUnderHead(c, p) ==
  p.version # NoVersion /\ p.head /\ ~hasVersion(models[c], p.version)

isMissingVersion(c, p) ==
  p.version # NoVersion /\ ~p.head /\ ~hasVersion(models[c], p.version)

isNewInBitMap(c) == bitMap[c] = NoVersion

\* the already-at-version test guarded by headVersion, as the next test is
isAlreadyAtVersionUnderHead(c, p) ==
  p.version # NoVersion /\ p.head /\ bitMap[c] = p.version

isAlreadyAtVersion(c, p) == p.version # NoVersion /\ bitMap[c] = p.version

isAlreadyAtLatest(c, p) == p.head /\ bitMap[c] = getNewVersion(c, p)

\* the merge-pending test without its reset guard
isMergePendingAlways(c, p) == c \in diverged

isMergePending(c, p) == ~p.reset /\ c \in diverged

isComponentModified(c) == c \in modified

\* the not-modified test with its negation lost
isModifiedOnReset(c, p) == isComponentModified(c) /\ p.reset

isNotModifiedOnReset(c, p) == ~isComponentModified(c) /\ p.reset

isRefMissing(c, p) == getRef(models[c], getNewVersion(c, p)) = NoVersion

\* the removed test on the version in use instead of the new version
isCurrentRemoved(c, p) == isRemoved(models[c], bitMap[c])

isTargetRemoved(c, p) == isRemoved(models[c], getNewVersion(c, p))

needsNoMerge(c, p) == p.reset \/ ~isComponentModified(c)

getComponentStatusBeforeMergeAttempt(c, p) ==
  IF isNewNoModel(c) THEN returnFailure(c, MsgNewNoModel, TRUE)
  ELSE IF isDuringMerge(c, p) THEN returnFailure(c, MsgDuringMerge, FALSE)
  ELSE IF isMissingVersion(c, p) THEN returnFailure(c, MsgNoVersion, FALSE)
  ELSE IF isNewInBitMap(c) THEN returnFailure(c, MsgNew, FALSE)
  ELSE IF isAlreadyAtVersion(c, p) THEN returnFailure(c, MsgAlreadyAtVersion, TRUE)
  ELSE IF isAlreadyAtLatest(c, p) THEN returnFailure(c, MsgAlreadyLatest, TRUE)
  ELSE IF isMergePending(c, p) THEN returnFailure(c, MsgMergePending, FALSE)
  ELSE IF isNotModifiedOnReset(c, p) THEN returnFailure(c, MsgNotModified, TRUE)
  ELSE IF isRefMissing(c, p)
    THEN [returnFailure(c, NoMsg, FALSE) EXCEPT !.error = ErrNoRef]
  ELSE IF isTargetRemoved(c, p)
    THEN [returnFailure(c, MsgRemoved, TRUE) EXCEPT !.shouldBeRemoved = TRUE]
  ELSE IF needsNoMerge(c, p)
    THEN [returnFailure(c, NoMsg, FALSE) EXCEPT !.version = getNewVersion(c, p),
                                              !.currentComponent = c]
  ELSE [returnFailure(c, NoMsg, FALSE) EXCEPT !.version = getNewVersion(c, p),
                                            !.currentComponent = c,
                                            !.propsForMerge = TRUE,
                                            !.currentlyUsedVersion = bitMap[c]]

\* ---------------------------------------------------------- getMergeStatus

\* an external call and what it returned
Call(op, id, base, other, current, hasConflicts) ==
  [op |-> op, id |-> id, base |-> base, other |-> other, current |-> current,
   hasConflicts |-> hasConflicts, ids |-> {}, force |-> FALSE]

SimpleCall(op) == Call(op, "", NoVersion, NoVersion, "", FALSE)

removeLocallyByIdsCall(componentIdsToRemove) ==
  [SimpleCall("removeLocallyByIds") EXCEPT !.ids = componentIdsToRemove, !.force = TRUE]

\* the base taken from the version being checked out
baseVersionIsTarget(st) == st.version

\* the base of the three-way merge
baseVersion(st) == st.currentlyUsedVersion

\* the threeWayMerge call made for a merge-needed component, and its result
getMergeStatus(st, conflicts) ==
  [st EXCEPT !.propsForMerge = FALSE, !.merged = TRUE,
             !.baseVersion = baseVersion(st),
             !.hasConflicts = st.id \in conflicts]

threeWayMergeCall(st) ==
  Call("threeWayMerge", st.id, st.baseVersion, st.version, st.currentComponent,
       st.hasConflicts)

\* ---------------------------------------------------------------- checkout

MapSeq(s, Op(_)) == [i \in 1..Len(s) |-> Op(s[i])]

Exists(s, Test(_)) == \E i \in 1..Len(s) : Test(s[i])

Range(s) == {s[i] : i \in 1..Len(s)}

loadComponents == SelectSeq(ComponentOrder, LAMBDA c : c \in workspaceIds)

hasPropsForMerge(st) == st.propsForMerge

hasError(st) == st.error # NoErr

hasFailureMessage(st) == st.failureMessage # NoMsg

isConflicting(st) == st.merged /\ st.hasConflicts

\* the fatal-conflict test with the negation of promptMergeOptions lost
conflictIsFatalWhenPrompting(p, componentWithConflict) ==
  componentWithConflict /\ p.promptMergeOptions /\ p.mergeStrategy = NoStrategy

\* checkout throws on a conflict nobody said how to resolve
conflictIsFatal(p, componentWithConflict) ==
  componentWithConflict /\ ~p.promptMergeOptions /\ p.mergeStrategy = NoStrategy

toFailedComponent(st) ==
  [id |-> st.id, failureMessage |-> st.failureMessage,
   unchangedLegitimately |-> st.unchangedLegitimately]

isReportedFailure(st) == hasFailureMessage(st) /\ ~st.shouldBeRemoved

isSucceeded(st) == ~hasFailureMessage(st)

shouldBeRemoved(st) == st.shouldBeRemoved

applyVersionCall(st) ==
  Call("applyVersion", st.id, NoVersion, st.version, st.currentComponent, FALSE)

toAppliedComponent(st) == [id |-> st.id, version |-> st.version]

\* the files of an applied component against its new version: a plain apply
\* writes the model's files; a merge keeps the local changes unless the
\* conflict was resolved for the model's version
modifiedAfterApply(st, strategy) ==
  st.merged /\ ~(st.hasConflicts /\ strategy = "theirs")

\* the bitmap once the applied components are written and the removed ones
\* are deleted from the workspace; writeMany leaves the bitmap alone when it
\* is told to skip it
bitMapAfter(applied, removed, skipUpdatingBitMap) ==
  [c \in Comps |->
     IF c \in removed THEN NoVersion
     ELSE IF ~skipUpdatingBitMap /\ \E st \in applied : st.id = c
       THEN (CHOOSE st \in applied : st.id = c).version
     ELSE bitMap[c]]

\* the components whose files differ from the version the bitmap then holds
modifiedAfter(applied, removed, strategy, skipUpdatingBitMap) ==
  {c \in Comps \ removed :
     IF \E st \in applied : st.id = c
       THEN LET st == CHOOSE a \in applied : a.id = c
            IN \/ modifiedAfterApply(st, strategy)
               \/ skipUpdatingBitMap /\ st.version # bitMap[c]
       ELSE c \in modified}

\* newFromLane as checkout declares it: undefined
NotComputed == [defined |-> FALSE, ids |-> {}]

NoResult == [error |-> NoErr, components |-> <<>>, removedComponents |-> <<>>,
             failedComponents |-> <<>>, leftUnresolvedConflicts |-> FALSE,
             version |-> NoVersion, mergeStrategy |-> NoStrategy,
             newFromLane |-> NotComputed, newFromLaneAdded |-> FALSE]

\* no lane is checked out: the workspace is on main
NoLane == [active |-> FALSE, ids |-> {}]

isComponentRemoved(c) == isRemoved(models[c], headIncludeRemote(models[c]))

\* getNewComponentsFromLane without the isComponentRemoved filter
getNewComponentsFromLaneWithRemoved(ids) ==
  IF ~currentLane.active THEN {} ELSE currentLane.ids \ ids

\* the lane's components that are not among ids and are not removed
getNewComponentsFromLane(ids) ==
  IF ~currentLane.active THEN {}
  ELSE {c \in currentLane.ids \ ids : ~isComponentRemoved(c)}

loadComponentFromModelCall(c) ==
  Call("loadComponentFromModelImportIfNeeded", c, NoVersion, headIncludeRemote(models[c]),
       "", FALSE)

writeManyCall(componentsLegacy) ==
  [SimpleCall("writeMany") EXCEPT !.ids = componentsLegacy]

\* the bitmap once writeMany has written the components hydrated from the lane
bitMapWithHydrated(b, hydrated, skipUpdatingBitMap) ==
  [c \in Comps |->
     IF c \in hydrated /\ ~skipUpdatingBitMap
       THEN headIncludeRemote(models[c]) ELSE b[c]]

Snapshot == [bitMap |-> bitMap, modified |-> modified, workspaceIds |-> workspaceIds]

NoSnapshot == [bitMap |-> [c \in Comps |-> NoVersion], modified |-> {}, workspaceIds |-> {}]

syncNewComponentsCalls(p) == IF p.head THEN <<SimpleCall("importWithoutDeps")>> ELSE <<>>

\* checkout(checkoutProps), where `conflicts` are the components whose
\* three-way merge reports conflicts and `chosen` is what the user answers
\* when asked for a merge strategy. Each intermediate array of the code is
\* bound once, in the order the code computes them.
checkout(p, conflicts, chosen) ==
  \E components \in {loadComponents} :
  \E allComponentStatusBeforeMerge \in
        {MapSeq(components, LAMBDA c : getComponentStatusBeforeMergeAttempt(c, p))} :
  \E compsNeedMerge \in {SelectSeq(allComponentStatusBeforeMerge, hasPropsForMerge)} :
  \E compsNotNeedMerge \in
        {SelectSeq(allComponentStatusBeforeMerge, LAMBDA st : ~hasPropsForMerge(st))} :
  \E compStatusMergeNeeded \in
        {MapSeq(compsNeedMerge, LAMBDA st : getMergeStatus(st, conflicts))} :
  \E allComponentsStatus \in {compStatusMergeNeeded \o compsNotNeedMerge} :
  \E succeededComponents \in {SelectSeq(allComponentsStatus, isSucceeded)} :
  LET componentWithConflict == Exists(allComponentsStatus, isConflicting)
      mergeStrategy ==
        IF componentWithConflict /\ p.mergeStrategy = NoStrategy THEN chosen
        ELSE p.mergeStrategy
      failedComponents ==
        MapSeq(SelectSeq(allComponentsStatus, isReportedFailure), toFailedComponent)
      componentIdsToRemove ==
        MapSeq(SelectSeq(allComponentsStatus, shouldBeRemoved), LAMBDA st : st.id)
      applied == Range(succeededComponents)
      removed == Range(componentIdsToRemove)
      mergeCalls ==
        <<SimpleCall("importManyIfMissingWithoutDeps")>>
        \o MapSeq(compStatusMergeNeeded, threeWayMergeCall)
        \o <<SimpleCall("tmp.clear")>>
      newFromLane ==
        IF p.head THEN [defined |-> TRUE, ids |-> getNewComponentsFromLane(Range(components))]
        ELSE NotComputed
      newFromLaneAdded == p.head /\ ~p.workspaceOnly
      compsNewFromLane == IF newFromLaneAdded THEN newFromLane.ids ELSE {}
      componentsLegacy == {st.id : st \in applied} \cup compsNewFromLane
      laneCalls ==
        (IF p.head THEN <<SimpleCall("getCurrentLaneObject")>> ELSE <<>>)
        \o MapSeq(SelectSeq(ComponentOrder, LAMBDA c : c \in compsNewFromLane),
                  loadComponentFromModelCall)
      writeCalls ==
        IF componentsLegacy # {}
          THEN <<writeManyCall(componentsLegacy), SimpleCall("deleteFilesIfNeeded")>>
          ELSE <<>>
      removeCalls ==
        IF Len(componentIdsToRemove) > 0
          THEN <<removeLocallyByIdsCall(Range(componentIdsToRemove))>>
          ELSE <<>>
  IN /\ pc' = "done"
     /\ props' = p
     /\ pre' = Snapshot
     /\ statuses' = allComponentStatusBeforeMerge
     /\ UNCHANGED scopeVars
     /\ IF Exists(allComponentStatusBeforeMerge, hasError)
          THEN \* a classification threw: the Promise.all of line 80 rejects
               /\ conflicts = {} /\ chosen = "manual"
               /\ result' = [NoResult EXCEPT !.error = ErrNoRef]
               /\ calls' = syncNewComponentsCalls(p)
               /\ UNCHANGED <<bitMap, workspaceIds, modified>>
          ELSE /\ conflicts \subseteq {compsNeedMerge[i].id : i \in 1..Len(compsNeedMerge)}
               /\ IF conflictIsFatal(p, componentWithConflict)
                    THEN /\ chosen = "manual"
                         /\ result' = [NoResult EXCEPT !.error = ErrConflict]
                         /\ calls' = syncNewComponentsCalls(p) \o mergeCalls
                         /\ UNCHANGED <<bitMap, workspaceIds, modified>>
                    ELSE /\ (componentWithConflict /\ p.mergeStrategy = NoStrategy)
                              \/ chosen = "manual"
                         /\ result' =
                              [error |-> NoErr,
                               components |-> MapSeq(succeededComponents, toAppliedComponent),
                               removedComponents |-> componentIdsToRemove,
                               failedComponents |-> failedComponents,
                               leftUnresolvedConflicts |->
                                 componentWithConflict /\ mergeStrategy = "manual",
                               version |-> p.version,
                               mergeStrategy |-> mergeStrategy,
                               newFromLane |-> newFromLane,
                               newFromLaneAdded |-> newFromLaneAdded]
                         /\ calls' = syncNewComponentsCalls(p) \o mergeCalls
                                       \o MapSeq(succeededComponents, applyVersionCall)
                                       \o laneCalls \o writeCalls \o removeCalls
                         /\ bitMap' = bitMapWithHydrated(
                                        bitMapAfter(applied, removed, p.skipUpdatingBitmap),
                                        compsNewFromLane, p.skipUpdatingBitmap)
                         /\ workspaceIds' =
                              (workspaceIds \ removed)
                              \cup (IF p.skipUpdatingBitmap THEN {} ELSE compsNewFromLane)
                         /\ modified' = modifiedAfter(applied, removed, mergeStrategy,
                                                      p.skipUpdatingBitmap)

\* the components a checkout to target t would three-way merge
mergeNeededIds(t) ==
  {c \in workspaceIds : getComponentStatusBeforeMergeAttempt(c, t).propsForMerge}

\* a checkout in which no merge reports a conflict: mergeStrategy and
\* promptMergeOptions are never read
CheckoutClean ==
  /\ pc = "idle"
  /\ \E t \in TargetProps : checkout(t, {}, "manual")
  /\ UNCHANGED applyVars
  /\ UNCHANGED cliVars
  /\ UNCHANGED historyVars
  /\ UNCHANGED laneVars
  /\ UNCHANGED mergerVars
  /\ UNCHANGED pipelineVars

\* a checkout in which some merge reports a conflict, under a strategy the
\* caller selected, or none
CheckoutConflict ==
  /\ pc = "idle"
  /\ \E t \in TargetProps :
       \E conflicts \in SUBSET mergeNeededIds(t) \ {{}} :
         \E o \in MergeOptions :
           \E chosen \in (IF o = <<NoStrategy, TRUE>> THEN MergeStrategies ELSE {"manual"}) :
             checkout(withMergeOptions(t, o), conflicts, chosen)
  /\ UNCHANGED applyVars
  /\ UNCHANGED cliVars
  /\ UNCHANGED historyVars
  /\ UNCHANGED laneVars
  /\ UNCHANGED mergerVars
  /\ UNCHANGED pipelineVars

NothingVisible == [c \in Comps |-> {}]

NoRef == 0

NoCall == [op |-> "", ref |-> NoRef, result |-> FALSE, traversed |-> FALSE,
           found |-> <<>>, missing |-> <<>>, hashes |-> <<>>]

\* no Lane instance: create has not returned one
NoInstance == [exists |-> FALSE]

NoLaneCall == [op |-> "", id |-> <<>>, head |-> "", returned |-> FALSE, error |-> "",
               other |-> <<>>]

\* getMergedAndUnmergedIds is not in flight and has not returned
NoChecks == [running |-> FALSE, returned |-> FALSE, scope |-> {}, components |-> <<>>,
             position |-> <<>>, merged |-> <<>>, unmerged |-> <<>>]

\* the workspace config has not been read
NotLoaded == [loaded |-> FALSE]

\* workspace.jsonc has not been read: none of its lines is known
NotRead == <<>>

NoMergerCall == [op |-> ""]

\* no checkout is under way
NoPipeline ==
  [phase |-> "idle", kinds |-> [c \in Comps |-> ""], hasStrategy |-> FALSE,
   tmp |-> "none", pending |-> {}, conflicts |-> {}, error |-> "",
   queue |-> <<>>, applying |-> {}, applied |-> <<>>, log |-> <<>>]

NoCliArgs == [to |-> "", componentPattern |-> "", checkoutProps |-> NoProps]

NotParsed == [error |-> NoErr, checkoutProps |-> NoProps]

\* the command ends; the workspace stays as checkout left it
Return ==
  /\ pc = "done"
  /\ pc' = "idle"
  /\ props' = NoProps
  /\ pre' = NoSnapshot
  /\ statuses' = <<>>
  /\ calls' = <<>>
  /\ result' = NoResult
  /\ toApply' = <<>>
  /\ inProgress' = {}
  /\ completed' = <<>>
  /\ visible' = NothingVisible
  /\ cliArgs' = NoCliArgs
  /\ parsed' = NotParsed
  /\ UNCHANGED <<scopeVars, bitMap, workspaceIds, modified>>
  /\ UNCHANGED historyVars
  /\ UNCHANGED laneVars
  /\ UNCHANGED mergerVars
  /\ UNCHANGED pipelineVars

\* ------------------------------------------------------------------- Init

Tracked(b) == {c \in Comps : b[c] # NoVersion}

Init ==
  /\ models \in [Comps -> ModelComponents]
  /\ workspaceIds = Comps
  /\ bitMap \in [Comps -> {NoVersion} \cup Versions]
  /\ \A c \in Comps : bitMap[c] # NoVersion => bitMap[c] \in models[c].versions
  /\ unmergedComponents \in SUBSET Tracked(bitMap)
  /\ diverged \in SUBSET Tracked(bitMap)
  /\ currentLane = NoLane
  /\ modified \in SUBSET Tracked(bitMap)
  /\ pc = "idle"
  /\ props = NoProps
  /\ pre = NoSnapshot
  /\ statuses = <<>>
  /\ calls = <<>>
  /\ result = NoResult
  /\ toApply = <<>>
  /\ inProgress = {}
  /\ completed = <<>>
  /\ visible = NothingVisible
  /\ cliArgs = NoCliArgs
  /\ parsed = NotParsed
  /\ versions = <<>>
  /\ graphCompleteRefs = <<>>
  /\ hasChanged = FALSE
  /\ lastCall = NoCall
  /\ lane = NoInstance
  /\ laneCall = NoLaneCall
  /\ laneChecks = NoChecks
  /\ wsPolicy = NotLoaded
  /\ wsJsonc = NotRead
  /\ mergerCall = NoMergerCall
  /\ pipeline = NoPipeline

Next == CheckoutClean \/ CheckoutConflict \/ Return

Spec == Init /\ [][Next]_vars

\* ------------------------------------------------- reading a checkout

Done == pc = "done"

Returned == Done /\ result.error = NoErr

Loaded == pre.workspaceIds

statusOf(c) == CHOOSE st \in Range(statuses) : st.id = c

CallsOf(op, c) == {i \in 1..Len(calls) : calls[i].op = op /\ calls[i].id = c}

Called(op) == \E i \in 1..Len(calls) : calls[i].op = op

MergeCalls == {i \in 1..Len(calls) : calls[i].op = "threeWayMerge"}

HasConflict == \E i \in MergeCalls : calls[i].hasConflicts

AppliedIds == {result.components[i].id : i \in 1..Len(result.components)}

RemovedIds == Range(result.removedComponents)

FailedIds == {result.failedComponents[i].id : i \in 1..Len(result.failedComponents)}

ReportedFailure(c, msg, legit) ==
  [id |-> c, failureMessage |-> msg, unchangedLegitimately |-> legit]
    \in Range(result.failedComponents)

NotMergedNorApplied(c) ==
  /\ CallsOf("threeWayMerge", c) = {}
  /\ CallsOf("applyVersion", c) = {}
  /\ c \notin AppliedIds

Untouched(c) ==
  /\ bitMap[c] = pre.bitMap[c]
  /\ (c \in modified) = (c \in pre.modified)
  /\ (c \in workspaceIds) = (c \in pre.workspaceIds)

WasTracked(c) == pre.bitMap[c] # NoVersion

IsLiteral(p) ==
  p.version # NoVersion /\ ~p.head /\ ~p.latest /\ ~p.reset /\ ~p.hasVersionPerId

\* the version the checkout in `props` asks for, for a component
headTarget(c) == models[c].head

latestTarget(c) ==
  IF models[c].latest # NoVersion THEN models[c].latest ELSE models[c].head

targetVersion(c) ==
  IF props.reset THEN pre.bitMap[c]
  ELSE IF props.head THEN headTarget(c)
  ELSE IF props.latest THEN latestTarget(c)
  ELSE IF props.hasVersionPerId THEN props.versionPerId[c]
  ELSE props.version

\* ------------------------------------------------------------------ C1

\* C1, as claimed: checking out a literal version v1 over a modified
\* component, every three-way merge gets base = v1, the version being
\* checked out.
C1_BaseIsTarget ==
  (Done /\ IsLiteral(props)) =>
    \A i \in MergeCalls : calls[i].base = props.version

\* C1, amended: every three-way merge of a checkout gets base = the version
\* the bitmap held for the component (the currently used version), current =
\* the component loaded from the workspace, other = the target version; for a
\* literal target the base differs from the target.
C1_BaseIsCurrentlyUsed ==
  Done =>
    \A i \in MergeCalls :
      /\ calls[i].id \in pre.modified
      /\ calls[i].base = pre.bitMap[calls[i].id]
      /\ calls[i].current = calls[i].id
      /\ calls[i].other = targetVersion(calls[i].id)
      /\ IsLiteral(props) =>
           calls[i].other = props.version /\ calls[i].base # props.version

\* C1, witness: a modified component at a newer version was merged into an older one
C1_Witness ==
  /\ Returned /\ IsLiteral(props)
  /\ \E i \in MergeCalls :
       /\ calls[i].base > calls[i].other
       /\ ~calls[i].hasConflicts
       /\ bitMap[calls[i].id] = props.version

\* ------------------------------------------------------------------ C2

\* C2: a conflict with no mergeStrategy and promptMergeOptions = false fails
\* the whole checkout before anything is applied, written or removed; the
\* workspace is as it was.
C2_ConflictAborts ==
  (Done /\ HasConflict /\ props.mergeStrategy = NoStrategy /\ ~props.promptMergeOptions) =>
    /\ result.error = ErrConflict
    /\ ~Called("applyVersion") /\ ~Called("writeMany") /\ ~Called("removeLocallyByIds")
    /\ result.components = <<>> /\ result.removedComponents = <<>>
    /\ bitMap = pre.bitMap /\ modified = pre.modified /\ workspaceIds = pre.workspaceIds

\* C2, witness: a batch with one conflicting and one cleanly merged component was aborted
C2_Witness ==
  /\ Done /\ result.error = ErrConflict
  /\ \E i, j \in MergeCalls : calls[i].hasConflicts /\ ~calls[j].hasConflicts

\* ------------------------------------------------------------------ C3

\* the arguments name a version for every loaded component
ValidArguments ==
  props.hasVersionPerId => \A c \in Loaded : props.versionPerId[c] # NoVersion

InExactlyOneList(c) ==
  Cardinality({l \in {"applied", "failed", "removed"} :
                 \/ l = "applied" /\ c \in AppliedIds
                 \/ l = "failed" /\ c \in FailedIds
                 \/ l = "removed" /\ c \in RemovedIds}) = 1

\* C3: a checkout with valid arguments and no merge conflict returns a
\* summary that lists every loaded component in exactly one of applied,
\* failed, removed, also when a target version is absent from a model.
C3_NeverAborts ==
  (Done /\ ValidArguments /\ ~HasConflict) =>
    /\ result.error = NoErr
    /\ \A c \in Loaded : InExactlyOneList(c)

\* ------------------------------------------------------------------ C4

\* C4, as claimed: for a literal target v every component whose bitmap
\* version is v is classified 'already at version v', legitimately, is
\* neither merged nor applied and is left as it was.
C4_AlreadyAtVersion ==
  (Done /\ IsLiteral(props)) =>
    \A c \in Loaded :
      pre.bitMap[c] = props.version =>
        /\ statusOf(c).failureMessage = MsgAlreadyAtVersion
        /\ statusOf(c).unchangedLegitimately
        /\ NotMergedNorApplied(c) /\ Untouched(c)

\* C4, amended: such a component is never merged nor applied and is left as
\* it was; it is classified 'already at version v', legitimately, unless it
\* is in during-merge state, which is tested first and is not legitimate.
C4_AlreadyAtVersionUnlessDuringMerge ==
  (Done /\ IsLiteral(props)) =>
    \A c \in Loaded :
      pre.bitMap[c] = props.version =>
        /\ NotMergedNorApplied(c) /\ Untouched(c)
        /\ IF c \in unmergedComponents
             THEN /\ statusOf(c).failureMessage = MsgDuringMerge
                  /\ ~statusOf(c).unchangedLegitimately
             ELSE /\ statusOf(c).failureMessage = MsgAlreadyAtVersion
                  /\ statusOf(c).unchangedLegitimately
                  /\ Returned => ReportedFailure(c, MsgAlreadyAtVersion, TRUE)

\* C4, witness: a modified component already at v was reported, another one was applied
C4_Witness ==
  /\ Returned /\ IsLiteral(props)
  /\ \E c \in Loaded :
       /\ pre.bitMap[c] = props.version /\ c \in pre.modified
       /\ ReportedFailure(c, MsgAlreadyAtVersion, TRUE)
  /\ AppliedIds # {}

\* ------------------------------------------------------------------ C5

\* C5: for head and for latest, a component (not during merge, not
\* merge-pending) whose bitmap version is the computed target is a
\* legitimate failure and is neither merged nor applied.
C5_AlreadyAtLatest ==
  (Done /\ (props.head \/ props.latest)) =>
    \A c \in Loaded :
      ( /\ WasTracked(c)
        /\ c \notin unmergedComponents /\ c \notin diverged
        /\ pre.bitMap[c] = targetVersion(c) ) =>
        /\ statusOf(c).failureMessage # NoMsg
        /\ statusOf(c).unchangedLegitimately
        /\ NotMergedNorApplied(c)

\* ------------------------------------------------------------------ C6

\* C6: reset on a tracked component that is not locally modified classifies
\* it 'not modified', legitimately, reports it as such, does not apply it and
\* leaves bitmap entry and files as they were, so that the same reset can be
\* repeated with the same outcome.
C6_ResetUnmodified ==
  (Done /\ props.reset) =>
    /\ Returned
    /\ \A c \in Loaded :
         (WasTracked(c) /\ c \notin pre.modified) =>
           /\ statusOf(c).failureMessage = MsgNotModified
           /\ statusOf(c).unchangedLegitimately
           /\ ReportedFailure(c, MsgNotModified, TRUE)
           /\ NotMergedNorApplied(c) /\ c \notin RemovedIds
           /\ Untouched(c)
           /\ bitMap[c] # NoVersion /\ c \notin modified /\ c \in workspaceIds

\* C6, witness: a reset left an unmodified component alone and reset a modified one
C6_Witness ==
  /\ Returned /\ props.reset
  /\ \E c, d \in Loaded :
       /\ WasTracked(c) /\ c \notin pre.modified
       /\ ReportedFailure(c, MsgNotModified, TRUE)
       /\ d \in pre.modified /\ d \in AppliedIds /\ d \notin modified

\* ------------------------------------------------------------------ C7

ModelLacks(c, v) == models[c].exists /\ v \notin models[c].versions

\* C7, as claimed: when the literal target X is absent from a component's
\* model, the component is reported in failedComponents with reason
\* "doesn't have version X", not legitimate, is not applied and keeps its
\* bitmap version.
C7_MissingVersion ==
  (Done /\ IsLiteral(props)) =>
    \A c \in Loaded :
      ModelLacks(c, props.version) =>
        /\ ReportedFailure(c, MsgNoVersion, FALSE)
        /\ c \notin AppliedIds
        /\ bitMap[c] = pre.bitMap[c]

\* C7, amended: such a component is classified as a failure that is not
\* legitimate, with reason "doesn't have version X" unless it is in
\* during-merge state (tested first), in which case the reason is the
\* during-merge one; it is neither merged nor applied and keeps its bitmap
\* version; it is in failedComponents whenever the checkout returns.
C7_MissingVersionUnlessDuringMerge ==
  (Done /\ IsLiteral(props)) =>
    \A c \in Loaded :
      ModelLacks(c, props.version) =>
        /\ statusOf(c).failureMessage =
             (IF c \in unmergedComponents THEN MsgDuringMerge ELSE MsgNoVersion)
        /\ ~statusOf(c).unchangedLegitimately
        /\ NotMergedNorApplied(c) /\ Untouched(c)
        /\ Returned => ReportedFailure(c, statusOf(c).failureMessage, FALSE)

\* C7, witness: one component lacked the version and was reported, the other was applied
C7_Witness ==
  /\ Returned /\ IsLiteral(props)
  /\ \E c \in Loaded :
       /\ ModelLacks(c, props.version) /\ WasTracked(c)
       /\ ReportedFailure(c, MsgNoVersion, FALSE)
  /\ AppliedIds # {}

\* ------------------------------------------------------------------ C8

TargetIsRemoved(c) ==
  /\ WasTracked(c)
  /\ targetVersion(c) \in models[c].removed

RemovedFromWorkspace(c) ==
  /\ c \in RemovedIds /\ c \notin FailedIds /\ c \notin AppliedIds
  /\ \E i \in 1..Len(calls) :
       calls[i].op = "removeLocallyByIds" /\ c \in calls[i].ids /\ calls[i].force
  /\ c \notin workspaceIds /\ bitMap[c] = NoVersion

\* C8, as claimed: whenever the computed target version of a tracked
\* component is removed, the component is in removedComponents, in neither
\* other list, and removeLocallyByIds is invoked for it with force, whether
\* or not it is modified or already at the target.
C8_RemovedTarget ==
  Returned =>
    \A c \in Loaded : TargetIsRemoved(c) => RemovedFromWorkspace(c)

\* the tests that precede the removed-target test
FailsBeforeRemovedTest(c) ==
  \/ ~props.reset /\ c \in unmergedComponents
  \/ props.version # NoVersion /\ pre.bitMap[c] = props.version
  \/ props.head /\ pre.bitMap[c] = targetVersion(c)
  \/ ~props.reset /\ c \in diverged
  \/ props.reset /\ c \notin pre.modified

\* C8, amended: when the checkout returns, a tracked component whose target
\* version is removed is removed from the workspace (listed in
\* removedComponents only, removeLocallyByIds with force) whether or not it
\* is modified, unless an earlier test fails it: during-merge, already at the
\* version (literal or head), merge-pending, or reset of an unmodified
\* component; then it is a failed component and stays in the workspace.
C8_RemovedTargetUnlessFailedEarlier ==
  Returned =>
    \A c \in Loaded :
      TargetIsRemoved(c) =>
        IF FailsBeforeRemovedTest(c)
          THEN /\ c \in FailedIds /\ c \notin RemovedIds /\ c \notin AppliedIds
               /\ ~statusOf(c).shouldBeRemoved
               /\ Untouched(c)
          ELSE /\ statusOf(c).shouldBeRemoved
               /\ statusOf(c).failureMessage = MsgRemoved
               /\ statusOf(c).unchangedLegitimately
               /\ RemovedFromWorkspace(c)

\* C8, witness: a modified component was removed because its target version is removed
C8_Witness ==
  /\ Returned
  /\ \E c \in Loaded :
       /\ TargetIsRemoved(c) /\ c \in pre.modified
       /\ RemovedFromWorkspace(c)
  /\ AppliedIds # {}

\* ------------------------------------------------------------------ C9

InDuringMerge(c) == models[c].exists /\ c \in unmergedComponents

\* C9, as claimed: a component in during-merge state is classified as a
\* failure that is not legitimate and is never applied, for every target,
\* reset included.
C9_DuringMerge ==
  Done =>
    \A c \in Loaded :
      InDuringMerge(c) =>
        /\ statusOf(c).failureMessage # NoMsg
        /\ ~statusOf(c).unchangedLegitimately
        /\ c \notin AppliedIds

\* C9, amended: for every target other than reset a component in
\* during-merge state is classified as the during-merge failure, not
\* legitimate, and is neither merged nor applied nor changed; reset skips the
\* during-merge test: a modified during-merge component is reset (applied, or
\* removed when its version is removed) and an unmodified one is a
\* legitimate 'not modified' failure.
C9_DuringMergeExceptReset ==
  Done =>
    \A c \in Loaded :
      InDuringMerge(c) =>
        IF ~props.reset
          THEN /\ statusOf(c).failureMessage = MsgDuringMerge
               /\ ~statusOf(c).unchangedLegitimately
               /\ NotMergedNorApplied(c) /\ Untouched(c)
               /\ Returned => ReportedFailure(c, MsgDuringMerge, FALSE)
          ELSE /\ c \in pre.modified => (c \in AppliedIds \/ c \in RemovedIds)
               /\ c \notin pre.modified => ReportedFailure(c, MsgNotModified, TRUE)

\* C9, witness: a during-merge component was refused while another one was applied
C9_Witness ==
  /\ Returned /\ ~props.reset
  /\ \E c \in Loaded :
       /\ InDuringMerge(c) /\ c \in pre.modified
       /\ ReportedFailure(c, MsgDuringMerge, FALSE)
  /\ AppliedIds # {}

\* ----------------------------------------------------------------- C10

IsDiverged(c) == models[c].exists /\ WasTracked(c) /\ c \in diverged

\* the tests that precede the merge-pending test
FailsBeforeMergePendingTest(c) ==
  \/ ~props.reset /\ c \in unmergedComponents
  \/ props.version # NoVersion /\ props.version \notin models[c].versions
  \/ props.version # NoVersion /\ pre.bitMap[c] = props.version
  \/ props.head /\ pre.bitMap[c] = targetVersion(c)

\* C10, as claimed: a merge-pending component that passes the tests made
\* before the merge-pending test is classified as a failure that is not
\* legitimate and is neither merged nor applied, whatever the target is,
\* reset included.
C10_MergePending ==
  Done =>
    \A c \in Loaded :
      (IsDiverged(c) /\ ~FailsBeforeMergePendingTest(c)) =>
        /\ statusOf(c).failureMessage # NoMsg
        /\ ~statusOf(c).unchangedLegitimately
        /\ NotMergedNorApplied(c)

AlreadyAtMessages == {MsgAlreadyAtVersion, MsgAlreadyLatest}

\* C10, amended: for every target other than reset a merge-pending component
\* is a failure, is neither merged nor applied nor changed, and the failure
\* is legitimate only when an already-at-version test caught it first; the
\* merge-pending reason is given only after the during-merge,
\* missing-version and already-at-version tests have passed; reset skips the
\* merge-pending test and resets a modified merge-pending component.
C10_MergePendingExceptReset ==
  Done =>
    \A c \in Loaded :
      IsDiverged(c) =>
        IF ~props.reset
          THEN /\ statusOf(c).failureMessage # NoMsg
               /\ NotMergedNorApplied(c) /\ Untouched(c)
               /\ statusOf(c).unchangedLegitimately <=>
                    statusOf(c).failureMessage \in AlreadyAtMessages
               /\ statusOf(c).failureMessage = MsgMergePending <=>
                    ~FailsBeforeMergePendingTest(c)
               /\ Returned => c \in FailedIds
          ELSE c \in pre.modified => (c \in AppliedIds \/ c \in RemovedIds)

\* C10, witness: a merge-pending component was refused while another one was applied
C10_Witness ==
  /\ Returned /\ ~props.reset
  /\ \E c \in Loaded :
       /\ IsDiverged(c) /\ c \in pre.modified
       /\ ReportedFailure(c, MsgMergePending, FALSE)
  /\ AppliedIds # {}

\* ----------------------------------------------------------------- C11

NewMessages == {MsgNewNoModel, MsgNew}

\* C11: every component classified as new (no model component, or no version
\* in the bitmap) is a failure with unchangedLegitimately = true and is never
\* applied, merged or removed.
C11_NewIsLegitimate ==
  Done =>
    \A c \in Loaded :
      statusOf(c).failureMessage \in NewMessages =>
        /\ statusOf(c).unchangedLegitimately
        /\ NotMergedNorApplied(c)
        /\ c \notin RemovedIds /\ ~statusOf(c).shouldBeRemoved

\* ----------------------------------------------------------------- C12

HasNoFailure(c) == statusOf(c).failureMessage = NoMsg /\ statusOf(c).error = NoErr

MergeNeeded(c) == statusOf(c).propsForMerge

ReadyPlain(c) == HasNoFailure(c) /\ ~statusOf(c).propsForMerge

\* C12: a classified component is 'merge needed' exactly when it has no
\* failure, the target is not reset, it is locally modified and the target
\* version differs from its bitmap version; it is 'ready, no merge needed'
\* exactly when it has no failure and is unmodified or the target is reset;
\* a reset of a modified component is ready-plain, applied and never merged.
C12_MergeNeededIff ==
  Done =>
    \A c \in Loaded :
      statusOf(c).error = NoErr =>
        /\ MergeNeeded(c) <=>
             /\ HasNoFailure(c) /\ ~props.reset /\ c \in pre.modified
             /\ statusOf(c).version # pre.bitMap[c]
        /\ ReadyPlain(c) <=>
             (HasNoFailure(c) /\ (c \notin pre.modified \/ props.reset))
        /\ (props.reset /\ c \in pre.modified /\ HasNoFailure(c)) =>
             /\ ReadyPlain(c)
             /\ CallsOf("threeWayMerge", c) = {}
             /\ Returned => c \in AppliedIds

\* ----------------------------------------------------------------- C13
\* The apply stage of checkout taken one await at a time: mapSeries calls the
\* mapper for an element and awaits its promise before it takes the next.

classify(p) ==
  MapSeq(loadComponents, LAMBDA c : getComponentStatusBeforeMergeAttempt(c, p))

\* the ids of succeededComponents, for a checkout whose merges are clean
succeededIds(allComponentStatusBeforeMerge) ==
  LET compsNeedMerge == SelectSeq(allComponentStatusBeforeMerge, hasPropsForMerge)
      compsNotNeedMerge ==
        SelectSeq(allComponentStatusBeforeMerge, LAMBDA st : ~hasPropsForMerge(st))
      allComponentsStatus ==
        MapSeq(compsNeedMerge, LAMBDA st : getMergeStatus(st, {})) \o compsNotNeedMerge
  IN MapSeq(SelectSeq(allComponentsStatus, isSucceeded), LAMBDA st : st.id)

\* checkout has classified and merged, and reaches the apply stage
ApplyBegin ==
  /\ pc = "idle"
  /\ \E t \in Targets :
       \E allComponentStatusBeforeMerge \in {classify(t)} :
         /\ ~Exists(allComponentStatusBeforeMerge, hasError)
         /\ pc' = "applying"
         /\ props' = t
         /\ toApply' = succeededIds(allComponentStatusBeforeMerge)
  /\ inProgress' = {}
  /\ completed' = <<>>
  /\ visible' = NothingVisible
  /\ UNCHANGED <<scopeVars, bitMap, workspaceIds, modified, pre, statuses, calls, result>>
  /\ UNCHANGED cliVars
  /\ UNCHANGED historyVars
  /\ UNCHANGED laneVars
  /\ UNCHANGED mergerVars
  /\ UNCHANGED pipelineVars

\* the index of the element mapSeries takes next
nextToApply == Len(completed) + Cardinality(inProgress) + 1

\* a mapper that starts every element without awaiting the one before
mapAllMayStart == TRUE

\* mapSeries awaits the promise of an element before it takes the next
mapSeriesMayStart == inProgress = {}

\* applyVersion is called for the next succeeded component
ApplyStart ==
  /\ pc = "applying"
  /\ nextToApply <= Len(toApply)
  /\ mapSeriesMayStart
  /\ inProgress' = inProgress \cup {toApply[nextToApply]}
  /\ visible' = [visible EXCEPT ![toApply[nextToApply]] = Range(completed)]
  /\ UNCHANGED <<scopeVars, bitMap, workspaceIds, modified, pc, props, pre, statuses,
                 calls, result, toApply, completed>>
  /\ UNCHANGED cliVars
  /\ UNCHANGED historyVars
  /\ UNCHANGED laneVars
  /\ UNCHANGED mergerVars
  /\ UNCHANGED pipelineVars

\* the promise of a running applyVersion resolves
ApplyResolve ==
  /\ pc = "applying"
  /\ \E c \in inProgress :
       /\ inProgress' = inProgress \ {c}
       /\ completed' = Append(completed, c)
  /\ UNCHANGED <<scopeVars, bitMap, workspaceIds, modified, pc, props, pre, statuses,
                 calls, result, toApply, visible>>
  /\ UNCHANGED cliVars
  /\ UNCHANGED historyVars
  /\ UNCHANGED laneVars
  /\ UNCHANGED mergerVars
  /\ UNCHANGED pipelineVars

\* every apply has resolved: checkout writes, removes and returns
ApplyFinish ==
  /\ pc = "applying"
  /\ Len(completed) = Len(toApply)
  /\ checkout(props, {}, "manual")
  /\ UNCHANGED applyVars
  /\ UNCHANGED cliVars
  /\ UNCHANGED historyVars
  /\ UNCHANGED laneVars
  /\ UNCHANGED mergerVars
  /\ UNCHANGED pipelineVars

NextApply == ApplyBegin \/ ApplyStart \/ ApplyResolve \/ ApplyFinish \/ Return

SpecApply == Init /\ [][NextApply]_vars

Earlier(k) == {toApply[j] : j \in 1..(k - 1)}

HasStarted(c) == c \in inProgress \/ c \in Range(completed)

\* C13: at most one applyVersion is in progress at any time; the apply of
\* component k+1 starts only after the applies of components 1..k have
\* completed, so what they wrote is visible to it; the applies complete, and
\* are reported, in the order of the succeeded components.
C13_AppliesAreSequential ==
  /\ Cardinality(inProgress) <= 1
  /\ \A k \in 1..Len(toApply) :
       HasStarted(toApply[k]) => visible[toApply[k]] = Earlier(k)
  /\ \A i \in 1..Len(completed) : completed[i] = toApply[i]
  /\ (Returned /\ toApply # <<>>) =>
       /\ completed = toApply
       /\ [i \in 1..Len(result.components) |-> result.components[i].id] = toApply

\* C13, witness: the second apply is running and sees what the first wrote
C13_Witness ==
  /\ pc = "applying"
  /\ Len(toApply) = 2
  /\ inProgress = {toApply[2]}
  /\ completed = <<toApply[1]>>
  /\ visible[toApply[2]] = {toApply[1]}

\* ----------------------------------------------------------------- C14

AppliedVersion(c) ==
  (CHOOSE a \in Range(result.components) : a.id = c).version

\* C14, as claimed: after a checkout head that returns, the applied id and
\* the bitmap entry of every applied component hold the component's
\* headIncludeRemote.
C14_HeadMonotonicity ==
  (Returned /\ props.head) =>
    \A c \in AppliedIds :
      /\ AppliedVersion(c) = headTarget(c)
      /\ bitMap[c] = headTarget(c)

\* C14, amended: after a checkout head that returns, the applied id of every
\* applied component holds the component's headIncludeRemote, which differs
\* from the version the bitmap held; the bitmap entry holds it too unless
\* skipUpdatingBitmap is set, in which case the entry is left as it was.
C14_HeadMonotonicityUnlessSkipped ==
  (Returned /\ props.head) =>
    \A c \in AppliedIds :
      /\ AppliedVersion(c) = headTarget(c)
      /\ pre.bitMap[c] # headTarget(c)
      /\ bitMap[c] = (IF props.skipUpdatingBitmap THEN pre.bitMap[c] ELSE headTarget(c))

\* C14, witness: a checkout head moved a modified and an unmodified
\* component from an older version to their heads
C14_Witness ==
  /\ Returned /\ props.head /\ ~props.skipUpdatingBitmap
  /\ AppliedIds = Comps
  /\ pre.modified # {} /\ pre.modified # Comps
  /\ \A c \in Comps : pre.bitMap[c] < bitMap[c] /\ bitMap[c] = models[c].head

\* ----------------------------------------------------------------- C15

\* a general target (head, latest or a literal version) given together with
\* a versionPerId that names at least one component
MixedTargets ==
  {[t EXCEPT !.hasVersionPerId = TRUE, !.versionPerId = m] :
     t \in {g \in Targets : g.head \/ g.latest \/ g.version # NoVersion},
     m \in VersionPerIdMaps \ {NoProps.versionPerId}}

\* a checkout whose props carry both a general target and versionPerId
CheckoutMixed ==
  /\ pc = "idle"
  /\ \E t \in MixedTargets : checkout(t, {}, "manual")
  /\ UNCHANGED applyVars
  /\ UNCHANGED cliVars
  /\ UNCHANGED historyVars
  /\ UNCHANGED laneVars
  /\ UNCHANGED mergerVars
  /\ UNCHANGED pipelineVars

NextMixed == CheckoutMixed \/ Return

SpecMixed == Init /\ [][NextMixed]_vars

\* the general target of the checkout in `props`, versionPerId left aside
generalTarget(c) ==
  IF props.head THEN headTarget(c)
  ELSE IF props.latest THEN latestTarget(c)
  ELSE props.version

\* the version C15 expects a component to be checked out to
expectedVersion(c) ==
  IF props.versionPerId[c] # NoVersion THEN props.versionPerId[c] ELSE generalTarget(c)

\* C15: with versionPerId supplied, a component that classification lets
\* through is checked out to its versionPerId entry when it has one and to
\* the general target otherwise, whatever other target flags are set, and
\* the checkout does not fail on a component whose expected version exists.
C15_VersionPerIdPrecedence ==
  (Done /\ props.hasVersionPerId /\ ~props.reset) =>
    \A c \in Loaded :
      /\ HasNoFailure(c) => statusOf(c).version = expectedVersion(c)
      /\ statusOf(c).error = ErrNoRef => expectedVersion(c) \notin models[c].versions

\* ----------------------------------------------------------------- C16

\* a workspace that tracks some of the components, on main or on a lane that
\* holds some of the components of the scope
InitLane ==
  /\ models \in [Comps -> ModelComponents]
  /\ workspaceIds \in SUBSET Comps
  /\ bitMap \in [Comps -> {NoVersion} \cup Versions]
  /\ \A c \in Comps :
       bitMap[c] # NoVersion => (c \in workspaceIds /\ bitMap[c] \in models[c].versions)
  /\ unmergedComponents = {}
  /\ diverged = {}
  /\ currentLane \in
       {NoLane} \cup {[active |-> TRUE, ids |-> l] :
                        l \in SUBSET {c \in Comps : models[c].exists}}
  /\ modified \in SUBSET Tracked(bitMap)
  /\ pc = "idle"
  /\ props = NoProps
  /\ pre = NoSnapshot
  /\ statuses = <<>>
  /\ calls = <<>>
  /\ result = NoResult
  /\ toApply = <<>>
  /\ inProgress = {}
  /\ completed = <<>>
  /\ visible = NothingVisible
  /\ cliArgs = NoCliArgs
  /\ parsed = NotParsed
  /\ versions = <<>>
  /\ graphCompleteRefs = <<>>
  /\ hasChanged = FALSE
  /\ lastCall = NoCall
  /\ lane = NoInstance
  /\ laneCall = NoLaneCall
  /\ laneChecks = NoChecks
  /\ wsPolicy = NotLoaded
  /\ wsJsonc = NotRead
  /\ mergerCall = NoMergerCall
  /\ pipeline = NoPipeline

\* head, latest, reset or a literal version, with or without workspaceOnly
LaneTargets ==
  {[t EXCEPT !.workspaceOnly = w] : t \in {g \in Targets : ~g.hasVersionPerId},
                                    w \in BOOLEAN}

CheckoutLane ==
  /\ pc = "idle"
  /\ \E t \in LaneTargets : checkout(t, {}, "manual")
  /\ UNCHANGED applyVars
  /\ UNCHANGED cliVars
  /\ UNCHANGED historyVars
  /\ UNCHANGED laneVars
  /\ UNCHANGED mergerVars
  /\ UNCHANGED pipelineVars

NextLane == CheckoutLane \/ Return

SpecLane == InitLane /\ [][NextLane]_vars

\* the lane's components that were not requested and are not removed
ExpectedNewFromLane ==
  IF currentLane.active
    THEN {c \in currentLane.ids :
            c \notin pre.workspaceIds /\ models[c].head \notin models[c].removed}
    ELSE {}

HydratedAndWritten(c) ==
  \E i, j \in 1..Len(calls) :
    /\ i < j
    /\ calls[i].op = "loadComponentFromModelImportIfNeeded" /\ calls[i].id = c
    /\ calls[j].op = "writeMany" /\ c \in calls[j].ids

\* C16: newFromLane is computed only for head and is then the lane's
\* components that are neither requested nor removed (none without a lane);
\* newFromLaneAdded is false whenever workspaceOnly is set or the target is
\* not head; when it is true every new-from-lane component was loaded from
\* the model and then handed to writeMany, and otherwise none was loaded.
C16_NewFromLane ==
  Returned =>
    /\ result.newFromLane.defined <=> props.head
    /\ result.newFromLane.ids = (IF props.head THEN ExpectedNewFromLane ELSE {})
    /\ (props.workspaceOnly \/ ~props.head) => ~result.newFromLaneAdded
    /\ result.newFromLaneAdded =>
         \A c \in result.newFromLane.ids : HydratedAndWritten(c)
    /\ ~result.newFromLaneAdded => ~Called("loadComponentFromModelImportIfNeeded")

\* C16, witness: a checkout head on a lane applied a workspace component and
\* hydrated a component that is on the lane only, while a removed lane
\* component stayed out
C16_Witness ==
  /\ Returned /\ props.head /\ result.newFromLaneAdded
  /\ AppliedIds # {}
  /\ \E c \in result.newFromLane.ids : HydratedAndWritten(c) /\ c \in workspaceIds
  /\ \E i \in 1..Len(calls) :
       calls[i].op = "writeMany" /\ calls[i].ids = AppliedIds \cup result.newFromLane.ids

\* ----------------------------------------------------------------- C17
\* checkoutByCLIValues: parseValues, then checkout

HEAD == "head"

LATEST == "latest"

\* the version strings of the versions the model distinguishes
VersionStrings == <<"0.0.1", "0.0.2", "0.0.3", "0.0.4">>

isValidVersion(to) == \E i \in 1..Len(VersionStrings) : VersionStrings[i] = to

versionOf(to) == CHOOSE i \in 1..Len(VersionStrings) : VersionStrings[i] = to

ErrInvalidVersion == "the specified version is not a valid version"

ErrPatternAndAll == "please specify either [component-pattern] or --all, not both"

ErrNoPatternNoAll == "please specify [component-pattern] or use --all flag"

ErrWorkspaceOnly == "--workspace-only flag can only be used with head"

\* the first branch of parseValues: the flag `to` stands for
setTarget(to, checkoutProps) ==
  IF to = HEAD THEN [checkoutProps EXCEPT !.head = TRUE]
  ELSE IF to = LATEST THEN [checkoutProps EXCEPT !.latest = TRUE]
  ELSE IF to = "reset" THEN [checkoutProps EXCEPT !.reset = TRUE]
  ELSE IF isValidVersion(to) THEN [checkoutProps EXCEPT !.version = versionOf(to)]
  ELSE checkoutProps

\* head and latest without a pattern mean every component
setAll(componentPattern, checkoutProps) ==
  IF (checkoutProps.head \/ checkoutProps.latest) /\ componentPattern = ""
    THEN [checkoutProps EXCEPT !.all = TRUE]
    ELSE checkoutProps

\* parseValues(to, componentPattern, checkoutProps): what it throws, and
\* checkoutProps as it left them
parseValues(to, componentPattern, checkoutProps) ==
  LET isTarget == to \in {HEAD, LATEST, "reset"} \/ isValidVersion(to)
      withTarget == setTarget(to, checkoutProps)
      withAll == setAll(componentPattern, withTarget)
  IN IF ~isTarget
       THEN [error |-> ErrInvalidVersion, checkoutProps |-> withTarget]
     ELSE IF componentPattern # "" /\ withAll.all
       THEN [error |-> ErrPatternAndAll, checkoutProps |-> withAll]
     ELSE IF componentPattern = "" /\ ~withAll.all
       THEN [error |-> ErrNoPatternNoAll, checkoutProps |-> withAll]
     ELSE IF withAll.workspaceOnly /\ ~withAll.head
       THEN [error |-> ErrWorkspaceOnly, checkoutProps |-> withAll]
     ELSE [error |-> NoErr, checkoutProps |-> withAll]

ToStrings ==
  {HEAD, LATEST, "reset", "not-a-version"} \cup {VersionStrings[v] : v \in Versions}

\* the flags a caller may have set in checkoutProps before the call
PrePopulatedProps ==
  {[NoProps EXCEPT !.head = h, !.latest = l, !.reset = r, !.version = v, !.all = a,
                   !.workspaceOnly = w] :
     h \in BOOLEAN, l \in BOOLEAN, r \in BOOLEAN, v \in {NoVersion, 1},
     a \in BOOLEAN, w \in BOOLEAN}

\* a pattern that matches every component of the workspace, or none given
CliArgs ==
  {[to |-> to, componentPattern |-> pattern, checkoutProps |-> p] :
     to \in ToStrings, pattern \in {"", "**"}, p \in PrePopulatedProps}

\* checkoutByCLIValues on main: a throw of parseValues ends the command
\* before checkout is called
checkoutByCLIValues ==
  /\ pc = "idle"
  /\ \E a \in CliArgs :
       \E r \in {parseValues(a.to, a.componentPattern, a.checkoutProps)} :
         /\ cliArgs' = a
         /\ parsed' = r
         /\ IF r.error # NoErr
              THEN /\ pc' = "done"
                   /\ result' = [NoResult EXCEPT !.error = r.error]
                   /\ UNCHANGED <<scopeVars, bitMap, workspaceIds, modified, props, pre,
                                  statuses, calls>>
              ELSE checkout(r.checkoutProps, {}, "manual")
  /\ UNCHANGED applyVars
  /\ UNCHANGED historyVars
  /\ UNCHANGED laneVars
  /\ UNCHANGED mergerVars
  /\ UNCHANGED pipelineVars

\* a workspace on main whose components are unmodified and behind their head
InitParse ==
  /\ Init
  /\ \A c \in Comps : models[c] \in FullModels /\ bitMap[c] = 1
  /\ unmergedComponents = {} /\ diverged = {} /\ modified = {}

NextParse == checkoutByCLIValues \/ Return

SpecParse == InitParse /\ [][NextParse]_vars

TargetsSet(p) ==
  Cardinality({f \in {"head", "latest", "reset", "version"} :
                 \/ f = "head" /\ p.head
                 \/ f = "latest" /\ p.latest
                 \/ f = "reset" /\ p.reset
                 \/ f = "version" /\ p.version # NoVersion})

ParseFailed == parsed.error # NoErr

\* C17: after parseValues succeeds exactly one of head, latest, reset,
\* version is set, whatever the caller had set in checkoutProps; parseValues
\* fails, and nothing is classified, when a pattern comes with `all`, when a
\* reset or literal target comes with neither, and when workspaceOnly is set
\* but head is not.
C17_ParseValues ==
  Done /\ cliArgs # NoCliArgs =>
    /\ ~ParseFailed => TargetsSet(parsed.checkoutProps) = 1
    /\ (cliArgs.componentPattern # "" /\ cliArgs.checkoutProps.all) => ParseFailed
    /\ ( /\ cliArgs.to \notin {HEAD, LATEST}
         /\ cliArgs.componentPattern = "" /\ ~cliArgs.checkoutProps.all ) => ParseFailed
    /\ (parsed.checkoutProps.workspaceOnly /\ ~parsed.checkoutProps.head) => ParseFailed
    /\ ParseFailed => (statuses = <<>> /\ calls = <<>> /\ result.error = parsed.error)

\* ---------------------------------------------------------------------------
\* VersionHistory (src/src/scope/models/version-history.ts)
\* ---------------------------------------------------------------------------

\* refs are numbered in the order their snaps were created: a snap's parents,
\* its unrelated ref and the refs squashed into it are older than the snap
MaxRef == 3

Refs == 1..MaxRef

DistinctSeqs(S) ==
  UNION {{q \in [1..n -> S] : \A i, j \in 1..n : i # j => q[i] # q[j]} :
         n \in 0..Cardinality(S)}

Older(h) == {r \in Refs : r < h}

\* the links a Version object can carry besides its parents: none, or the
\* snap before it as its unrelated ref, or as the one snap squashed into it
LinkChoices(h) ==
  {[unrelated |-> NoRef, squashed |-> <<>>]}
    \cup {[unrelated |-> r, squashed |-> <<>>] : r \in Older(h) \cap {h - 1}}
    \cup {[unrelated |-> NoRef, squashed |-> <<r>>] : r \in Older(h) \cap {h - 1}}

\* VersionParents: what getVersionParentsFromVersion keeps of a Version object
VersionParents ==
  UNION {{[hash |-> h, parents |-> ps, unrelated |-> l.unrelated, squashed |-> l.squashed] :
          ps \in DistinctSeqs(Older(h)), l \in LinkChoices(h)} : h \in Refs}

hasHash(vs, ref) == \E i \in 1..Len(vs) : vs[i].hash = ref

\* versions.find((v) => v.hash.isEqual(ref)): the first entry with that hash
getVersionData(vs, ref) ==
  vs[CHOOSE i \in 1..Len(vs) :
       /\ vs[i].hash = ref
       /\ \A j \in 1..(i - 1) : vs[j].hash # ref]

\* versions.map((v) => v.hash)
hashesOf(vs) == [i \in 1..Len(vs) |-> vs[i].hash]

\* pushes an entry for each version, whether its hash has one or not
addFromVersionsObjectsAlwaysPush(vs, batch) == vs \o batch

\* for each version: update the entry it has, push a new one otherwise
RECURSIVE addFromVersionsObjects(_, _)
addFromVersionsObjects(vs, batch) ==
  IF batch = <<>> THEN vs
  ELSE LET version == Head(batch)
           updated == [i \in 1..Len(vs) |->
                         IF vs[i].hash = version.hash
                           /\ \A j \in 1..(i - 1) : vs[j].hash # version.hash
                         THEN [vs[i] EXCEPT !.parents = version.parents,
                                            !.unrelated = version.unrelated,
                                            !.squashed = version.squashed]
                         ELSE vs[i]]
       IN addFromVersionsObjects(
            IF hasHash(vs, version.hash) THEN updated ELSE Append(vs, version),
            Tail(batch))

\* the direct parents only, none of their own parents
RECURSIVE addHashesOfParentsOnly(_, _, _)
addHashesOfParentsOnly(vs, parents, acc) ==
  IF parents = <<>> THEN acc
  ELSE LET parent == Head(parents)
       IN IF parent \in Range(acc.allHashes)
          THEN addHashesOfParentsOnly(vs, Tail(parents), acc)
          ELSE IF ~hasHash(vs, parent)
          THEN addHashesOfParentsOnly(vs, Tail(parents),
                                      [acc EXCEPT !.missing = Append(@, parent)])
          ELSE addHashesOfParentsOnly(vs, Tail(parents),
                                      [acc EXCEPT !.allHashes = Append(@, parent)])

\* descends into every parent with an entry, visited before or not
RECURSIVE addHashesWithoutVisitedTest(_, _, _)
addHashesWithoutVisitedTest(vs, parents, acc) ==
  IF parents = <<>> THEN acc
  ELSE LET parent == Head(parents)
       IN IF ~hasHash(vs, parent)
          THEN addHashesWithoutVisitedTest(vs, Tail(parents),
                                           [acc EXCEPT !.missing = Append(@, parent)])
          ELSE addHashesWithoutVisitedTest(vs, Tail(parents),
                 addHashesWithoutVisitedTest(vs, getVersionData(vs, parent).parents,
                                             [acc EXCEPT !.allHashes = Append(@, parent)]))

\* ver.parents.forEach: skip a visited parent, record a parent without entry
\* as missing, else add the parent and descend into its own parents
RECURSIVE addHashesRecursively(_, _, _)
addHashesRecursively(vs, parents, acc) ==
  IF parents = <<>> THEN acc
  ELSE LET parent == Head(parents)
       IN IF parent \in Range(acc.allHashes)
          THEN addHashesRecursively(vs, Tail(parents), acc)
          ELSE IF ~hasHash(vs, parent)
          THEN addHashesRecursively(vs, Tail(parents),
                                    [acc EXCEPT !.missing = Append(@, parent)])
          ELSE LET added == [acc EXCEPT !.allHashes = Append(@, parent)]
                   parentVer == getVersionData(vs, parent)
               IN addHashesRecursively(vs, Tail(parents),
                    IF Len(parentVer.parents) > 0
                    THEN addHashesRecursively(vs, parentVer.parents, added)
                    ELSE added)

\* { found, missing }; found is undefined when start has no entry
getAllHashesFrom(vs, start) ==
  IF ~hasHash(vs, start)
  THEN [defined |-> FALSE, found |-> <<>>, missing |-> <<start>>]
  ELSE LET acc == addHashesRecursively(vs, getVersionData(vs, start).parents,
                                       [allHashes |-> <<start>>, missing |-> <<>>])
       IN [defined |-> TRUE, found |-> acc.allHashes, missing |-> acc.missing]

\* always traverses, the memo is written but never read
isGraphCompleteSinceNoMemo(vs, refs, changed, ref) ==
  LET isComplete == Len(getAllHashesFrom(vs, ref).missing) = 0
  IN [result |-> isComplete, traversed |-> TRUE,
      graphCompleteRefs |-> IF isComplete THEN Append(refs, ref) ELSE refs,
      hasChanged |-> IF isComplete THEN TRUE ELSE changed]

\* the value returned, whether getAllHashesFrom was called, and the fields after
isGraphCompleteSince(vs, refs, changed, ref) ==
  IF ref \in Range(refs)
  THEN [result |-> TRUE, traversed |-> FALSE, graphCompleteRefs |-> refs,
        hasChanged |-> changed]
  ELSE LET isComplete == Len(getAllHashesFrom(vs, ref).missing) = 0
       IN [result |-> isComplete, traversed |-> TRUE,
           graphCompleteRefs |-> IF isComplete THEN Append(refs, ref) ELSE refs,
           hasChanged |-> IF isComplete THEN TRUE ELSE changed]

\* keeps the entries it has and takes only those the incoming history adds
mergeKeepingExisting(vs, incoming) ==
  vs \o SelectSeq(incoming, LAMBDA v : ~hasHash(vs, v.hash))

\* [...versionHistory.versions, ...(own entries the incoming history lacks)]
merge(vs, incoming) ==
  incoming \o SelectSeq(vs, LAMBDA v : ~hasHash(incoming, v.hash))

MaxBatch == 1

\* the Version objects of one call, and the entries of an incoming history:
\* at most MaxBatch, no hash twice
Batches ==
  {b \in UNION {[1..n -> VersionParents] : n \in 1..MaxBatch} :
     \A i, j \in 1..Len(b) : i # j => b[i].hash # b[j].hash}

AddFromVersionsObjects ==
  /\ pc = "idle"
  /\ \E batch \in Batches :
       /\ versions' = addFromVersionsObjects(versions, batch)
       /\ lastCall' = [NoCall EXCEPT !.op = "addFromVersionsObjects",
                                     !.hashes = hashesOf(batch)]
  /\ UNCHANGED <<graphCompleteRefs, hasChanged>>
  /\ UNCHANGED checkoutVars
  /\ UNCHANGED laneVars
  /\ UNCHANGED mergerVars
  /\ UNCHANGED pipelineVars

Merge ==
  /\ pc = "idle"
  /\ \E incoming \in Batches :
       /\ versions' = merge(versions, incoming)
       /\ lastCall' = [NoCall EXCEPT !.op = "merge", !.hashes = hashesOf(incoming)]
  /\ UNCHANGED <<graphCompleteRefs, hasChanged>>
  /\ UNCHANGED checkoutVars
  /\ UNCHANGED laneVars
  /\ UNCHANGED mergerVars
  /\ UNCHANGED pipelineVars

GetAllHashesFrom ==
  /\ pc = "idle"
  /\ \E start \in Refs \cup {versions[i].hash : i \in 1..Len(versions)} :
       \E r \in {getAllHashesFrom(versions, start)} :
         lastCall' = [NoCall EXCEPT !.op = "getAllHashesFrom", !.ref = start,
                                    !.result = r.defined, !.traversed = TRUE,
                                    !.found = r.found, !.missing = r.missing]
  /\ UNCHANGED <<versions, graphCompleteRefs, hasChanged>>
  /\ UNCHANGED checkoutVars
  /\ UNCHANGED laneVars
  /\ UNCHANGED mergerVars
  /\ UNCHANGED pipelineVars

IsGraphCompleteSince ==
  /\ pc = "idle"
  /\ \E ref \in Refs :
       \E r \in {isGraphCompleteSince(versions, graphCompleteRefs, hasChanged, ref)} :
         /\ graphCompleteRefs' = r.graphCompleteRefs
         /\ hasChanged' = r.hasChanged
         /\ lastCall' = [NoCall EXCEPT !.op = "isGraphCompleteSince", !.ref = ref,
                                       !.result = r.result, !.traversed = r.traversed]
  /\ UNCHANGED versions
  /\ UNCHANGED checkoutVars
  /\ UNCHANGED laneVars
  /\ UNCHANGED mergerVars
  /\ UNCHANGED pipelineVars

NextHistory ==
  \/ AddFromVersionsObjects
  \/ Merge
  \/ GetAllHashesFrom
  \/ IsGraphCompleteSince

\* a history as VersionHistory.fromId builds it: no entries, nothing memoized;
\* the workspace is one in which every component is tracked and unmodified
InitHistory ==
  /\ InitParse
  /\ \A c \in Comps : models[c].latest = MaxVer /\ models[c].removed = {}

SpecHistory == InitHistory /\ [][NextHistory]_vars

\* ---------------------------------------------------------------------------
\* C18
\* ---------------------------------------------------------------------------

parentsOf(vs, S) == UNION {Range(getVersionData(vs, h).parents) : h \in S}

linksOf(vs, S) ==
  UNION {Range(getVersionData(vs, h).squashed) \cup
           ({getVersionData(vs, h).unrelated} \ {NoRef}) : h \in S}

\* the entries reachable from S over parents links, as a fixpoint
RECURSIVE ReachableByParents(_, _)
ReachableByParents(vs, S) ==
  LET more == S \cup {p \in parentsOf(vs, S) : hasHash(vs, p)}
  IN IF more = S THEN S ELSE ReachableByParents(vs, more)

\* C18: getAllHashesFrom(start) finds exactly the hashes reachable from start
\* over parents links through entries of versions, and reports as missing
\* exactly the parent refs of found entries that have no entry; a ref that a
\* found entry names only as unrelated or squashed is in neither list; a start
\* without an entry is itself the one missing ref and nothing is found.
C18_GetAllHashesFrom ==
  lastCall.op = "getAllHashesFrom" =>
    LET start == lastCall.ref
        found == Range(lastCall.found)
        missing == Range(lastCall.missing)
    IN IF hasHash(versions, start)
       THEN /\ lastCall.result
            /\ found = ReachableByParents(versions, {start})
            /\ missing = {p \in parentsOf(versions, found) : ~hasHash(versions, p)}
            /\ \A r \in linksOf(versions, found) \ parentsOf(versions, found) :
                 r \notin missing /\ (r \in found => r \in ReachableByParents(versions, {start}))
       ELSE /\ ~lastCall.result
            /\ lastCall.found = <<>>
            /\ lastCall.missing = <<start>>

\* C18, witness: a traversal that descended below the direct parents, found
\* a grandparent's ref to be missing, and passed an unrelated or squashed link
C18_Witness ==
  /\ lastCall.op = "getAllHashesFrom"
  /\ lastCall.result
  /\ Len(lastCall.found) >= 2
  /\ Len(lastCall.missing) >= 1
  /\ linksOf(versions, Range(lastCall.found)) # {}

\* ---------------------------------------------------------------------------
\* C19
\* ---------------------------------------------------------------------------

\* every transitive parent of ref is present
NothingMissing(ref) == Len(getAllHashesFrom(versions, ref).missing) = 0

\* C19: in every state reachable by addFromVersionsObjects, merge and
\* isGraphCompleteSince calls, isGraphCompleteSince(ref) returns true if and
\* only if getAllHashesFrom(ref).missing is empty in that state.
C19_CompleteIffNothingMissing ==
  lastCall.op = "isGraphCompleteSince" =>
    (lastCall.result <=> NothingMissing(lastCall.ref))

\* ---------------------------------------------------------------------------
\* C20
\* ---------------------------------------------------------------------------

\* what one isGraphCompleteSince(r) call does, r memoized before it or not
C20_Call ==
  lastCall'.op = "isGraphCompleteSince" =>
    LET r == lastCall'.ref
        memoized == r \in Range(graphCompleteRefs)
    IN /\ memoized =>
            /\ lastCall'.result
            /\ ~lastCall'.traversed
            /\ UNCHANGED <<graphCompleteRefs, hasChanged>>
       /\ (~memoized /\ lastCall'.result) =>
            /\ lastCall'.traversed
            /\ graphCompleteRefs' = Append(graphCompleteRefs, r)
            /\ hasChanged'
       /\ ~lastCall'.result => UNCHANGED <<graphCompleteRefs, hasChanged>>

\* a ref whose call returned true is memoized
C20_TrueIsMemoized ==
  (lastCall.op = "isGraphCompleteSince" /\ lastCall.result) =>
    lastCall.ref \in Range(graphCompleteRefs)

\* no operation takes a ref out of graphCompleteRefs
C20_MemoKept == Range(graphCompleteRefs) \subseteq Range(graphCompleteRefs')

\* C20: once isGraphCompleteSince(r) has returned true, r is in
\* graphCompleteRefs and stays there, and every later isGraphCompleteSince(r)
\* returns true from graphCompleteRefs without traversing the graph; the first
\* true result appends r to graphCompleteRefs and sets hasChanged; a false
\* result leaves graphCompleteRefs and hasChanged unchanged.
C20_ClosureUnderCompleteMark ==
  /\ []C20_TrueIsMemoized
  /\ [][C20_Call /\ C20_MemoKept]_vars

\* C20, witness: a later call for a memoized ref, answered true without a
\* traversal although a parent of the ref has gone missing since
C20_Witness ==
  /\ lastCall.op = "isGraphCompleteSince"
  /\ lastCall.result
  /\ ~lastCall.traversed
  /\ hasChanged
  /\ ~NothingMissing(lastCall.ref)

\* ---------------------------------------------------------------------------
\* C21
\* ---------------------------------------------------------------------------

\* one ref more than MaxRef, so that a snap can merge two snaps that have a
\* common parent
TraverseRefs == 1..(MaxRef + 1)

NoEntry == [present |-> FALSE, parents |-> <<>>]

\* per ref: no entry, or an entry with some list of older refs as its parents
EntryChoices(h) ==
  {NoEntry} \cup {[present |-> TRUE, parents |-> ps] :
                    ps \in DistinctSeqs({r \in TraverseRefs : r < h})}

RECURSIVE entriesFrom(_, _)
entriesFrom(f, h) ==
  IF h \notin DOMAIN f THEN <<>>
  ELSE (IF f[h].present
        THEN <<[hash |-> h, parents |-> f[h].parents, unrelated |-> NoRef,
                squashed |-> <<>>]>>
        ELSE <<>>) \o entriesFrom(f, h + 1)

\* props.versions of the constructor: entries with distinct hashes
VersionsProps ==
  {entriesFrom(f, 1) :
     f \in {g \in [TraverseRefs -> UNION {EntryChoices(h) : h \in TraverseRefs}] :
              \A h \in TraverseRefs : g[h] \in EntryChoices(h)}}

\* new VersionHistory(props), as create and parse call it
Construct ==
  /\ pc = "idle"
  /\ versions = <<>>
  /\ lastCall = NoCall
  /\ versions' \in VersionsProps \ {<<>>}
  /\ lastCall' = [NoCall EXCEPT !.op = "constructor"]
  /\ UNCHANGED <<graphCompleteRefs, hasChanged>>
  /\ UNCHANGED checkoutVars
  /\ UNCHANGED laneVars
  /\ UNCHANGED mergerVars
  /\ UNCHANGED pipelineVars

NextTraverse == Construct \/ GetAllHashesFrom

SpecTraverse == InitHistory /\ [][NextTraverse]_vars

ParentOrders(v) ==
  {q \in DistinctSeqs(Range(v.parents)) : Len(q) = Len(v.parents)}

RECURSIVE ParentReorderings(_)
ParentReorderings(vs) ==
  IF vs = <<>> THEN {<<>>}
  ELSE {<<[Head(vs) EXCEPT !.parents = q]>> \o rest :
          q \in ParentOrders(Head(vs)), rest \in ParentReorderings(Tail(vs))}

\* the histories that differ from vs only in the order of the entries and in
\* the order of each entry's parents
Reorderings(vs) ==
  UNION {{[i \in 1..Len(vs) |-> ws[p[i]]] : p \in Permutations(1..Len(vs))} :
         ws \in ParentReorderings(vs)}

NoDuplicates(q) == \A i, j \in 1..Len(q) : i # j => q[i] # q[j]

\* C21: getAllHashesFrom(r).found holds no hash twice and shares no hash with
\* missing, and on every history that differs only in the order of the entries
\* or of an entry's parents getAllHashesFrom(r) yields the same set of found
\* hashes and the same set of missing hashes, merge snaps included.
C21_TraversalDeterminism ==
  lastCall.op = "getAllHashesFrom" =>
    /\ NoDuplicates(lastCall.found)
    /\ Range(lastCall.found) \cap Range(lastCall.missing) = {}
    /\ \A ws \in Reorderings(versions) :
         LET r == getAllHashesFrom(ws, lastCall.ref)
         IN /\ Range(r.found) = Range(lastCall.found)
            /\ Range(r.missing) = Range(lastCall.missing)

\* C21, witness: a traversal from a merge snap whose two parents have an entry
\* each and share a parent, in a history that has other orders
C21_Witness ==
  /\ lastCall.op = "getAllHashesFrom"
  /\ lastCall.result
  /\ Cardinality(Reorderings(versions)) > 1
  /\ \E a, b \in Range(getVersionData(versions, lastCall.ref).parents) :
       /\ a # b
       /\ hasHash(versions, a)
       /\ hasHash(versions, b)
       /\ Range(getVersionData(versions, a).parents)
            \cap Range(getVersionData(versions, b).parents) # {}

\* ---------------------------------------------------------------------------
\* C22
\* ---------------------------------------------------------------------------

\* the Version objects of one call: up to MaxBatch + 1, a version may repeat
RepeatingBatches == UNION {[1..n -> VersionParents] : n \in 1..(MaxBatch + 1)}

\* the entries of an incoming history: up to MaxBatch + 1, no hash twice
IncomingVersions == {b \in RepeatingBatches : NoDuplicates(hashesOf(b))}

AddRepeatedVersions ==
  /\ pc = "idle"
  /\ \E batch \in RepeatingBatches :
       /\ versions' = addFromVersionsObjects(versions, batch)
       /\ lastCall' = [NoCall EXCEPT !.op = "addFromVersionsObjects",
                                     !.hashes = hashesOf(batch)]
  /\ UNCHANGED <<graphCompleteRefs, hasChanged>>
  /\ UNCHANGED checkoutVars
  /\ UNCHANGED laneVars
  /\ UNCHANGED mergerVars
  /\ UNCHANGED pipelineVars

MergeHistory ==
  /\ pc = "idle"
  /\ \E incoming \in IncomingVersions :
       /\ versions' = merge(versions, incoming)
       /\ lastCall' = [NoCall EXCEPT !.op = "merge", !.hashes = hashesOf(incoming)]
  /\ UNCHANGED <<graphCompleteRefs, hasChanged>>
  /\ UNCHANGED checkoutVars
  /\ UNCHANGED laneVars
  /\ UNCHANGED mergerVars
  /\ UNCHANGED pipelineVars

NextBatch == AddRepeatedVersions \/ MergeHistory

SpecBatch == InitHistory /\ [][NextBatch]_vars

\* C22: in every history reachable from the empty one by addFromVersionsObjects
\* (a batch may hold the same version twice) and merge (the incoming history
\* has no hash twice), no two entries of versions share a hash.
C22_NoDuplicateHashes == NoDuplicates(hashesOf(versions))

\* C22, witness: a history of several entries after a batch that held one
\* version twice
C22_Witness ==
  /\ lastCall.op = "addFromVersionsObjects"
  /\ ~NoDuplicates(lastCall.hashes)
  /\ Len(versions) >= 2

\* ---------------------------------------------------------------------------
\* Lane (src/src/scope/models/lane.ts)
\* ---------------------------------------------------------------------------

DEFAULT_LANE == "main"

PREVIOUS_DEFAULT_LANE == "master"

LANE_REMOTE_DELIMITER == "/"

LaneNames == {"dev", DEFAULT_LANE, PREVIOUS_DEFAULT_LANE}

LaneScope == "org.scope"

NoIdVersion == ""

\* ComponentID: scope, full name and, possibly, a version
ComponentIDs ==
  {[scope |-> LaneScope, fullName |-> "a", version |-> NoIdVersion],
   [scope |-> LaneScope, fullName |-> "a", version |-> "0.0.1"],
   [scope |-> LaneScope, fullName |-> "b", version |-> NoIdVersion]}

NoId == [scope |-> "", fullName |-> "", version |-> NoIdVersion]

isEqualWithoutVersion(x, y) == x.scope = y.scope /\ x.fullName = y.fullName

isEqualId(x, y) == isEqualWithoutVersion(x, y) /\ x.version = y.version

SnapHashes == {"snap1", "snap2"}

\* the hashes a Ref can hold: those of snaps, and a tag put in the place of one
HeadHashes == SnapHashes \cup {"0.0.1"}

isSnap(hash) == hash \in SnapHashes

\* readmeComponent.head = null
NullHead == "null"

LaneComponents == [id : ComponentIDs, head : HeadHashes]

\* readmeComponent: undefined, or an object of its own, or the very object
\* that is entry aliasOf of components (aliasOf = 0: an object of its own)
NoReadme == [defined |-> FALSE, id |-> NoId, head |-> NullHead, aliasOf |-> 0]

NoForkedFrom == [defined |-> FALSE, scope |-> "", name |-> ""]

ForkedFroms == {NoForkedFrom, [defined |-> TRUE, scope |-> LaneScope, name |-> "origin"]}

TheLog == [date |-> "1700000000000", username |-> "user", email |-> "user@example.org"]

\* sha1(v4())
FreshHashes == {"3f9a"}

\* new Lane(props); isNew and hasChanged start false
Lane(name, scope, log, components, hash, readmeComponent, forkedFrom) ==
  [exists |-> TRUE, name |-> name, scope |-> scope, log |-> log,
   components |-> components, hash |-> hash, readmeComponent |-> readmeComponent,
   forkedFrom |-> forkedFrom, isNew |-> FALSE, hasChanged |-> FALSE]

laneId(l) == l.scope \o LANE_REMOTE_DELIMITER \o l.name

\* Lane.create: no test of the name
create(name, scope, forkedFrom, hash) ==
  [Lane(name, scope, TheLog, <<>>, hash, NoReadme, forkedFrom)
     EXCEPT !.isNew = TRUE, !.hasChanged = TRUE]

\* the index of components.find((c) => c.id.isEqualWithoutVersion(id)), 0 if none
getComponent(l, id) ==
  IF \E i \in 1..Len(l.components) : isEqualWithoutVersion(l.components[i].id, id)
  THEN CHOOSE i \in 1..Len(l.components) :
         /\ isEqualWithoutVersion(l.components[i].id, id)
         /\ \A j \in 1..(i - 1) : ~isEqualWithoutVersion(l.components[j].id, id)
  ELSE 0

\* pushes the component although an entry of that id exists
addComponentAlwaysPush(l, component) ==
  [l EXCEPT !.components = Append(@, component), !.hasChanged = TRUE]

\* replaces the head of an entry without marking the lane as changed
addComponentUnmarked(l, component) ==
  LET i == getComponent(l, component.id)
  IN IF i > 0
     THEN [l EXCEPT !.components[i] = component,
                    !.readmeComponent =
                       IF @.defined /\ @.aliasOf = i
                       THEN [@ EXCEPT !.id = component.id, !.head = component.head]
                       ELSE @]
     ELSE [l EXCEPT !.components = Append(@, component), !.hasChanged = TRUE]

addComponent(l, component) ==
  LET i == getComponent(l, component.id)
  IN IF i > 0
     THEN [l EXCEPT !.hasChanged = @ \/ l.components[i].head # component.head,
                    !.components[i] = component,
                    !.readmeComponent =
                       IF @.defined /\ @.aliasOf = i
                       THEN [@ EXCEPT !.id = component.id, !.head = component.head]
                       ELSE @]
     ELSE [l EXCEPT !.components = Append(@, component), !.hasChanged = TRUE]

\* removes the first entry of that id only
removeFirstComponent(l, id) ==
  LET i == getComponent(l, id)
  IN IF i = 0 THEN l
     ELSE [l EXCEPT !.components = SubSeq(@, 1, i - 1) \o SubSeq(@, i + 1, Len(@)),
                    !.readmeComponent = [@ EXCEPT !.aliasOf = 0],
                    !.hasChanged = TRUE]

\* the lane after removeComponent(id); the call returns getComponent(l, id) > 0
removeComponent(l, id) ==
  IF getComponent(l, id) = 0 THEN l
  ELSE LET removed(i) == isEqualWithoutVersion(l.components[i].id, id)
           a == l.readmeComponent.aliasOf
       IN [l EXCEPT !.components = SelectSeq(@, LAMBDA c : ~isEqualWithoutVersion(c.id, id)),
                    !.readmeComponent =
                       [@ EXCEPT !.aliasOf =
                          IF a = 0 \/ removed(a) THEN 0
                          ELSE a - Cardinality({j \in 1..(a - 1) : removed(j)})],
                    !.hasChanged = TRUE]

\* the entries are cloned: readmeComponent keeps the object it had
setLaneComponents(l, laneComponents) ==
  [l EXCEPT !.components = laneComponents,
            !.readmeComponent = [@ EXCEPT !.aliasOf = 0],
            !.hasChanged = TRUE]

\* setReadmeComponent(undefined)
unsetReadmeComponent(l) ==
  [l EXCEPT !.readmeComponent = NoReadme,
            !.hasChanged = @ \/ l.readmeComponent.defined]

setReadmeComponent(l, id) ==
  LET previousReadme == l.readmeComponent
      i == getComponent(l, id)
      readmeComponent ==
        IF i = 0 THEN [defined |-> TRUE, id |-> id, head |-> NullHead, aliasOf |-> 0]
        ELSE [defined |-> TRUE, id |-> l.components[i].id,
              head |-> l.components[i].head, aliasOf |-> i]
  IN [l EXCEPT !.readmeComponent = readmeComponent,
               !.hasChanged = \/ @
                              \/ ~previousReadme.defined
                              \/ ~isEqualId(previousReadme.id, id)
                              \/ previousReadme.head # readmeComponent.head]

\* component.id.changeVersion(head).toString()
toComponentIdString(c) ==
  c.id.scope \o "/" \o c.id.fullName \o "@" \o c.head

\* toComponentIds().toStringArray()
toStringArray(l) == [i \in 1..Len(l.components) |-> toComponentIdString(l.components[i])]

\* what toObject keeps of a ComponentID: scope and full name
idObject(id) == [scope |-> id.scope, name |-> id.fullName]

\* toObject without the head of readmeComponent
toObjectWithoutReadmeHead(l) ==
  [name |-> l.name, scope |-> l.scope,
   components |-> [i \in 1..Len(l.components) |->
                     [id |-> idObject(l.components[i].id), head |-> l.components[i].head]],
   log |-> l.log,
   readmeComponent |-> [defined |-> l.readmeComponent.defined,
                        id |-> idObject(l.readmeComponent.id),
                        head |-> NullHead],
   forkedFrom |-> l.forkedFrom]

\* toObject: pickBy drops what is undefined; hash, isNew and hasChanged are no part
toObject(l) ==
  [name |-> l.name, scope |-> l.scope,
   components |-> [i \in 1..Len(l.components) |->
                     [id |-> idObject(l.components[i].id), head |-> l.components[i].head]],
   log |-> l.log,
   readmeComponent |-> [defined |-> l.readmeComponent.defined,
                        id |-> idObject(l.readmeComponent.id),
                        head |-> l.readmeComponent.head],
   forkedFrom |-> l.forkedFrom]

\* ComponentID.fromObject({ scope, name })
fromObject(o) == [scope |-> o.scope, fullName |-> o.name, version |-> NoIdVersion]

\* Lane.parse(contents, hash), contents being the JSON text of laneObject
parse(laneObject, hash) ==
  Lane(laneObject.name, laneObject.scope, laneObject.log,
       [i \in 1..Len(laneObject.components) |->
          [id |-> fromObject(laneObject.components[i].id),
           head |-> laneObject.components[i].head]],
       hash,
       IF laneObject.readmeComponent.defined
       THEN [defined |-> TRUE, id |-> fromObject(laneObject.readmeComponent.id),
             head |-> laneObject.readmeComponent.head, aliasOf |-> 0]
       ELSE NoReadme,
       laneObject.forkedFrom)

NoValidationError == ""

ErrDuplicated == "the following component is duplicated"

ErrHeadNotHash == "head should be a hash"

ErrDefaultLane == "this name is reserved as the default lane"

ErrOldDefaultLane == "this name is reserved as the old default lane"

\* the error components.forEach throws at entry i or after it, "" if none
RECURSIVE validateComponents(_, _)
validateComponents(l, i) ==
  IF i > Len(l.components) THEN NoValidationError
  ELSE IF Cardinality({j \in 1..Len(l.components) :
                         isEqualWithoutVersion(l.components[j].id, l.components[i].id)}) > 1
  THEN ErrDuplicated
  ELSE IF ~isSnap(l.components[i].head) THEN ErrHeadNotHash
  ELSE validateComponents(l, i + 1)

\* validate without the test of the heads
validateIdsAndName(l) ==
  IF \E i, j \in 1..Len(l.components) :
       i # j /\ isEqualWithoutVersion(l.components[j].id, l.components[i].id)
  THEN ErrDuplicated
  ELSE IF l.name = DEFAULT_LANE THEN ErrDefaultLane
  ELSE IF l.name = PREVIOUS_DEFAULT_LANE THEN ErrOldDefaultLane
  ELSE NoValidationError

\* the error validate throws, "" if it returns
validate(l) ==
  IF validateComponents(l, 1) # NoValidationError THEN validateComponents(l, 1)
  ELSE IF l.name = DEFAULT_LANE THEN ErrDefaultLane
  ELSE IF l.name = PREVIOUS_DEFAULT_LANE THEN ErrOldDefaultLane
  ELSE NoValidationError

\* toBuffer with validateBeforePersist: the error of
\* Lane.parse(str, hash).validate(), "" if the buffer is returned
toBuffer(l) == validate(parse(toObject(l), l.hash))

occurrences(q, x) == Cardinality({i \in 1..Len(q) : q[i] = x})

\* isEqual(a.sort(), b.sort()): equal lengths and equal elements at each place
\* of the sorted arrays, that is, every string occurs as often in a as in b
sortedIsEqual(a, b) ==
  \A x \in Range(a) \cup Range(b) : occurrences(a, x) = occurrences(b, x)

isEqual(l, other) ==
  /\ laneId(l) = laneId(other)
  /\ sortedIsEqual(toStringArray(l), toStringArray(other))

MaxLaneComponents == 2

\* the argument of setLaneComponents: up to MaxLaneComponents entries as other
\* lanes hold them once parsed, ids without version and snaps as heads
LaneComponentLists ==
  UNION {[1..n -> {c \in LaneComponents : c.id.version = NoIdVersion /\ isSnap(c.head)}] :
         n \in 0..MaxLaneComponents}

\* the names and fork origins Lane.create is called with
CreateArgs ==
  {[name |-> n, forkedFrom |-> NoForkedFrom] : n \in LaneNames}
    \cup {[name |-> "dev", forkedFrom |-> f] : f \in ForkedFroms}

LaneCreate ==
  /\ pc = "idle"
  /\ ~lane.exists
  /\ \E a \in CreateArgs, hash \in FreshHashes :
       /\ lane' = create(a.name, LaneScope, a.forkedFrom, hash)
       /\ laneCall' = [NoLaneCall EXCEPT !.op = "create", !.returned = TRUE]
  /\ UNCHANGED laneChecks
  /\ UNCHANGED checkoutVars
  /\ UNCHANGED historyVars
  /\ UNCHANGED mergerVars
  /\ UNCHANGED pipelineVars

AddComponent ==
  /\ pc = "idle"
  /\ lane.exists
  /\ \E component \in LaneComponents :
       /\ lane' = addComponent(lane, component)
       /\ laneCall' = [NoLaneCall EXCEPT !.op = "addComponent", !.id = component.id,
                                         !.head = component.head]
  /\ UNCHANGED laneChecks
  /\ UNCHANGED checkoutVars
  /\ UNCHANGED historyVars
  /\ UNCHANGED mergerVars
  /\ UNCHANGED pipelineVars

RemoveComponent ==
  /\ pc = "idle"
  /\ lane.exists
  /\ \E id \in ComponentIDs :
       /\ lane' = removeComponent(lane, id)
       /\ laneCall' = [NoLaneCall EXCEPT !.op = "removeComponent", !.id = id,
                                         !.returned = getComponent(lane, id) > 0]
  /\ UNCHANGED laneChecks
  /\ UNCHANGED checkoutVars
  /\ UNCHANGED historyVars
  /\ UNCHANGED mergerVars
  /\ UNCHANGED pipelineVars

SetLaneComponents ==
  /\ pc = "idle"
  /\ lane.exists
  /\ \E laneComponents \in LaneComponentLists :
       lane' = setLaneComponents(lane, laneComponents)
  /\ laneCall' = [NoLaneCall EXCEPT !.op = "setLaneComponents"]
  /\ UNCHANGED laneChecks
  /\ UNCHANGED checkoutVars
  /\ UNCHANGED historyVars
  /\ UNCHANGED mergerVars
  /\ UNCHANGED pipelineVars

SetReadmeComponent ==
  /\ pc = "idle"
  /\ lane.exists
  /\ \/ /\ lane' = unsetReadmeComponent(lane)
        /\ laneCall' = [NoLaneCall EXCEPT !.op = "setReadmeComponent"]
     \/ \E id \in ComponentIDs :
          /\ lane' = setReadmeComponent(lane, id)
          /\ laneCall' = [NoLaneCall EXCEPT !.op = "setReadmeComponent", !.id = id]
  /\ UNCHANGED laneChecks
  /\ UNCHANGED checkoutVars
  /\ UNCHANGED historyVars
  /\ UNCHANGED mergerVars
  /\ UNCHANGED pipelineVars

Validate ==
  /\ pc = "idle"
  /\ lane.exists
  /\ laneCall' = [NoLaneCall EXCEPT !.op = "validate", !.error = validate(lane),
                                    !.returned = validate(lane) = NoValidationError]
  /\ UNCHANGED <<lane, laneChecks>>
  /\ UNCHANGED checkoutVars
  /\ UNCHANGED historyVars
  /\ UNCHANGED mergerVars
  /\ UNCHANGED pipelineVars

ToBuffer ==
  /\ pc = "idle"
  /\ lane.exists
  /\ laneCall' = [NoLaneCall EXCEPT !.op = "toBuffer", !.error = toBuffer(lane),
                                    !.returned = toBuffer(lane) = NoValidationError]
  /\ UNCHANGED <<lane, laneChecks>>
  /\ UNCHANGED checkoutVars
  /\ UNCHANGED historyVars
  /\ UNCHANGED mergerVars
  /\ UNCHANGED pipelineVars

\* the instance is replaced by the one Lane.parse makes of its serialized form
LaneParse ==
  /\ pc = "idle"
  /\ lane.exists
  /\ lane' = parse(toObject(lane), lane.hash)
  /\ laneCall' = [NoLaneCall EXCEPT !.op = "parse", !.returned = TRUE]
  /\ UNCHANGED laneChecks
  /\ UNCHANGED checkoutVars
  /\ UNCHANGED historyVars
  /\ UNCHANGED mergerVars
  /\ UNCHANGED pipelineVars

NextLaneModel ==
  \/ LaneCreate
  \/ AddComponent
  \/ RemoveComponent
  \/ SetLaneComponents
  \/ SetReadmeComponent
  \/ Validate
  \/ ToBuffer
  \/ LaneParse

SpecLaneModel == InitHistory /\ [][NextLaneModel]_vars

\* ---------------------------------------------------------------------------
\* C23
\* ---------------------------------------------------------------------------

UniqueWithoutVersion(components) ==
  \A i, j \in 1..Len(components) :
    i # j => ~isEqualWithoutVersion(components[i].id, components[j].id)

\* C23: in every Lane reachable from Lane.create() by addComponent,
\* removeComponent, setLaneComponents and setReadmeComponent, no two entries of
\* components have ids that are equal without version.
C23_UniqueIds == lane.exists => UniqueWithoutVersion(lane.components)

\* ---------------------------------------------------------------------------
\* C24
\* ---------------------------------------------------------------------------

C24_AddComponentStep ==
  laneCall'.op = "addComponent" =>
    LET i == getComponent(lane, laneCall'.id)
        before == lane.components
        after == lane'.components
    IN IF i > 0
       THEN /\ Len(after) = Len(before)
            /\ after[i].head = laneCall'.head
            /\ isEqualWithoutVersion(after[i].id, laneCall'.id)
            /\ \A j \in 1..Len(before) : j # i => after[j] = before[j]
            /\ before[i].head # laneCall'.head => lane'.hasChanged
            /\ before[i].head = laneCall'.head => lane'.hasChanged = lane.hasChanged
       ELSE /\ after = Append(before, [id |-> laneCall'.id, head |-> laneCall'.head])
            /\ lane'.hasChanged

\* C24: addComponent({id, head}) replaces an entry of the same
\* id-without-version in place (no entry more, its head the new head) and sets
\* hasChanged exactly when the head differs from the previous one; without such
\* an entry the component is appended and hasChanged is set; all other entries
\* are unchanged in both cases.
C24_AddComponent == [][C24_AddComponentStep]_vars

\* C24, witness: an entry replaced by one of the same head, among other
\* entries, on a lane that had not changed and has not changed by it
C24_Witness ==
  /\ laneCall.op = "addComponent"
  /\ ~lane.hasChanged
  /\ Len(lane.components) >= 2

\* ---------------------------------------------------------------------------
\* C25
\* ---------------------------------------------------------------------------

C25_RemoveComponentStep ==
  laneCall'.op = "removeComponent" =>
    LET id == laneCall'.id
        before == lane.components
        after == lane'.components
        existed == \E i \in 1..Len(before) : isEqualWithoutVersion(before[i].id, id)
    IN /\ laneCall'.returned = existed
       /\ \A i \in 1..Len(after) : ~isEqualWithoutVersion(after[i].id, id)
       /\ after = SelectSeq(before, LAMBDA c : ~isEqualWithoutVersion(c.id, id))
       /\ ~existed => (after = before /\ lane'.hasChanged = lane.hasChanged)

\* C25: removeComponent(id) returns true exactly when an entry of that
\* id-without-version existed; afterwards no such entry remains and the other
\* entries keep id, head and relative order; when it returns false, components
\* and hasChanged are unchanged.
C25_RemoveComponent == [][C25_RemoveComponentStep]_vars

\* C25, witness: a removal that returned true and left one other entry, while
\* readmeComponent still is the object of the removed component
C25_Witness ==
  /\ laneCall.op = "removeComponent"
  /\ laneCall.returned
  /\ Len(lane.components) = 1
  /\ lane.readmeComponent.defined
  /\ isEqualWithoutVersion(lane.readmeComponent.id, laneCall.id)
  /\ lane.readmeComponent.head \in SnapHashes

\* ---------------------------------------------------------------------------
\* C26
\* ---------------------------------------------------------------------------

ReservedNames == {DEFAULT_LANE, PREVIOUS_DEFAULT_LANE}

\* C26: Lane.create(name, scope, ...) with the default-lane name or the
\* previous default-lane name fails and produces no Lane; with any other name
\* it returns a lane with a fresh hash, no components, isNew and hasChanged.
C26_CreateRejectsReservedNames ==
  (laneCall.op = "create" /\ lane.exists) =>
    /\ lane.name \notin ReservedNames
    /\ lane.hash \in FreshHashes
    /\ lane.components = <<>>
    /\ lane.isNew
    /\ lane.hasChanged

\* ---------------------------------------------------------------------------
\* C27
\* ---------------------------------------------------------------------------

AllHeadsAreSnaps(l) == \A i \in 1..Len(l.components) : l.components[i].head \in SnapHashes

ShouldBeRefused(l) ==
  \/ ~UniqueWithoutVersion(l.components)
  \/ ~AllHeadsAreSnaps(l)
  \/ l.name \in ReservedNames

\* C27: validate() raises an error exactly when two components share an
\* id-without-version, or some component's head is not a snap hash, or the name
\* is the default or previous default lane name; so toBuffer with validation
\* enabled never succeeds for a lane whose heads are not all snaps.
C27_Validate ==
  /\ laneCall.op = "validate" => (~laneCall.returned <=> ShouldBeRefused(lane))
  /\ laneCall.op = "validate" => (laneCall.returned <=> laneCall.error = NoValidationError)
  /\ (laneCall.op = "toBuffer" /\ ~AllHeadsAreSnaps(lane)) => ~laneCall.returned

\* C27, witness: toBuffer refused a lane for a tag as head and for nothing
\* else
C27_Witness ==
  /\ laneCall.op = "toBuffer"
  /\ laneCall.error = ErrHeadNotHash
  /\ UniqueWithoutVersion(lane.components)
  /\ lane.name \notin ReservedNames
  /\ Len(lane.components) >= 2

\* ---------------------------------------------------------------------------
\* C28
\* ---------------------------------------------------------------------------

\* the lanes isEqual is given: of the lane's name or another, with some list
\* of components
OtherLanes(l) ==
  {Lane(n, LaneScope, TheLog, cs, "7c1e", NoReadme, NoForkedFrom) :
     n \in {l.name, "other"}, cs \in LaneComponentLists}

IsEqual ==
  /\ pc = "idle"
  /\ lane.exists
  /\ \E other \in OtherLanes(lane) :
       laneCall' = [NoLaneCall EXCEPT !.op = "isEqual", !.other = other,
                                      !.returned = isEqual(lane, other)]
  /\ UNCHANGED <<lane, laneChecks>>
  /\ UNCHANGED checkoutVars
  /\ UNCHANGED historyVars
  /\ UNCHANGED mergerVars
  /\ UNCHANGED pipelineVars

NextLaneEqual == LaneCreate \/ AddComponent \/ SetLaneComponents \/ IsEqual

SpecLaneEqual == InitHistory /\ [][NextLaneEqual]_vars

\* the (component id, head) pairs of a lane, the id as the lane object holds it
IdHeadPairs(l) ==
  {<<idObject(l.components[i].id), l.components[i].head>> : i \in 1..Len(l.components)}

\* C28: isEqual(other) is true exactly when both lanes have the same id()
\* (scope and name) and the same set of (component id, head) pairs, whatever
\* the order of components; it is reflexive and symmetric.
C28_IsEqual ==
  laneCall.op = "isEqual" =>
    /\ laneCall.returned <=>
         /\ lane.scope = laneCall.other.scope
         /\ lane.name = laneCall.other.name
         /\ IdHeadPairs(lane) = IdHeadPairs(laneCall.other)
    /\ isEqual(lane, lane)
    /\ isEqual(laneCall.other, lane) = laneCall.returned

\* ---------------------------------------------------------------------------
\* C29
\* ---------------------------------------------------------------------------

\* ref.toString()
refToString(ref) == ToString(ref)

\* Ref.from(str)
RefFrom(str) == CHOOSE ref \in 0..(MaxRef + 1) : ToString(ref) = str

\* unrelated?.toString(): "" stands for the property JSON leaves out
NoString == ""

\* VersionHistory.toObject: name and scope left aside
historyToObject(vs, refs) ==
  [versions |-> [i \in 1..Len(vs) |->
                   [hash |-> refToString(vs[i].hash),
                    parents |-> [k \in 1..Len(vs[i].parents) |->
                                   refToString(vs[i].parents[k])],
                    unrelated |-> IF vs[i].unrelated = NoRef THEN NoString
                                  ELSE refToString(vs[i].unrelated),
                    squashed |-> [k \in 1..Len(vs[i].squashed) |->
                                    refToString(vs[i].squashed[k])]]],
   graphCompleteRefs |-> refs]

\* VersionHistory.parse: the props the constructor is given
historyParse(contents) ==
  [versions |-> [i \in 1..Len(contents.versions) |->
                   [hash |-> RefFrom(contents.versions[i].hash),
                    parents |-> [k \in 1..Len(contents.versions[i].parents) |->
                                   RefFrom(contents.versions[i].parents[k])],
                    unrelated |-> IF contents.versions[i].unrelated = NoString THEN NoRef
                                  ELSE RefFrom(contents.versions[i].unrelated),
                    squashed |-> [k \in 1..Len(contents.versions[i].squashed) |->
                                    RefFrom(contents.versions[i].squashed[k])]]],
   graphCompleteRefs |-> contents.graphCompleteRefs]

\* the instance is replaced by the one VersionHistory.parse makes of its
\* serialized form; hasChanged starts false
HistoryParse ==
  /\ pc = "idle"
  /\ \E parsedProps \in {historyParse(historyToObject(versions, graphCompleteRefs))} :
       /\ versions' = parsedProps.versions
       /\ graphCompleteRefs' = parsedProps.graphCompleteRefs
  /\ hasChanged' = FALSE
  /\ lastCall' = [NoCall EXCEPT !.op = "parse"]
  /\ UNCHANGED laneVars
  /\ UNCHANGED checkoutVars
  /\ UNCHANGED mergerVars
  /\ UNCHANGED pipelineVars

\* one object is serialized and parsed in a run, a Lane or a VersionHistory
NextRoundTrip ==
  \/ versions = <<>> /\ LaneCreate
  \/ versions = <<>> /\ AddComponent
  \/ versions = <<>> /\ SetReadmeComponent
  \/ versions = <<>> /\ LaneParse
  \/ ~lane.exists /\ AddFromVersionsObjects
  \/ ~lane.exists /\ IsGraphCompleteSince
  \/ ~lane.exists /\ HistoryParse

SpecRoundTrip == InitHistory /\ [][NextRoundTrip]_vars

SameComponents(a, b, SameId(_, _)) ==
  /\ Len(a.components) = Len(b.components)
  /\ \A i \in 1..Len(a.components) :
       /\ SameId(a.components[i].id, b.components[i].id)
       /\ a.components[i].head = b.components[i].head
  /\ a.readmeComponent.defined = b.readmeComponent.defined
  /\ a.readmeComponent.defined =>
       /\ SameId(a.readmeComponent.id, b.readmeComponent.id)
       /\ a.readmeComponent.head = b.readmeComponent.head

SameLaneFields(a, b) ==
  /\ a.name = b.name
  /\ a.scope = b.scope
  /\ a.log = b.log
  /\ a.hash = b.hash
  /\ a.forkedFrom = b.forkedFrom

C29_HistoryRoundTrip ==
  lastCall'.op = "parse" =>
    /\ versions' = versions
    /\ graphCompleteRefs' = graphCompleteRefs

\* C29: for every Lane, Lane.parse of its serialized form is structurally
\* equal to the lane: same name, scope, log, components (id and head, in
\* order), readmeComponent, forkedFrom and hash; likewise VersionHistory.parse
\* of a serialized history has the same versions and graphCompleteRefs.
C29_RoundTrip ==
  [][/\ laneCall'.op = "parse" =>
          SameLaneFields(lane, lane') /\ SameComponents(lane, lane', isEqualId)
     /\ C29_HistoryRoundTrip]_vars

\* C29, amended: the parsed lane is structurally equal to the lane up to the
\* version the ids of its components and of its readmeComponent carry, which
\* the serialized form does not hold; the parsed history has the same versions
\* and graphCompleteRefs.
C29_RoundTripUpToIdVersion ==
  [][/\ laneCall'.op = "parse" =>
          SameLaneFields(lane, lane') /\ SameComponents(lane, lane', isEqualWithoutVersion)
     /\ C29_HistoryRoundTrip]_vars

\* C29, witness: a parsed lane with two components, forkedFrom and a
\* readmeComponent that is none of them, its head null
C29_Witness ==
  /\ laneCall.op = "parse"
  /\ Len(lane.components) = 2
  /\ lane.forkedFrom.defined
  /\ lane.readmeComponent.defined
  /\ lane.readmeComponent.head = NullHead

\* ---------------------------------------------------------------------------
\* Lane.getMergedAndUnmergedIds and isFullyMerged (lane.ts 204-225)
\* ---------------------------------------------------------------------------

\* the history of the snaps in the scope: snap1 is the parent of snap2
reachableFrom(startFrom) ==
  IF startFrom = NullHead THEN {}
  ELSE IF startFrom = "snap2" THEN {"snap1", "snap2"}
  ELSE {startFrom}

\* the scopes the call is made with: at most one model component per component
\* name, with a head or without one
ScopeModelComponents == [fullName : {"a", "b"}, head : SnapHashes \cup {NullHead}]

Scopes ==
  {sc \in SUBSET ScopeModelComponents :
     \A m, n \in sc : m.fullName = n.fullName => m = n}

\* scope.getModelComponentIfExist(id): the model components of that name, none
\* when the component is not in the scope
getModelComponentIfExist(sc, id) == {m \in sc : m.fullName = id.fullName}

\* hasVersionByRef(modelComponent, ref, scope.objects, startTraverseFrom)
hasVersionByRef(modelComponent, ref, startTraverseFrom) ==
  ref \in reachableFrom(startTraverseFrom)

\* lines 209-212: the two lists are empty, every callback of components.map has
\* run up to its first await
GetMergedAndUnmergedIds ==
  /\ pc = "idle"
  /\ lane.exists
  /\ laneChecks = NoChecks
  /\ \E sc \in Scopes :
       laneChecks' = [NoChecks EXCEPT !.running = TRUE, !.scope = sc,
                                      !.components = lane.components,
                                      !.position = [i \in 1..Len(lane.components) |->
                                                      "getModelComponentIfExist"]]
  /\ UNCHANGED <<lane, laneCall>>
  /\ UNCHANGED checkoutVars
  /\ UNCHANGED historyVars
  /\ UNCHANGED mergerVars
  /\ UNCHANGED pipelineVars

\* lines 213-217: the callback of component i resumes with its model component
ModelComponentResolved ==
  /\ pc = "idle"
  /\ laneChecks.running
  /\ \E i \in 1..Len(laneChecks.position) :
       /\ laneChecks.position[i] = "getModelComponentIfExist"
       /\ \E found \in {getModelComponentIfExist(laneChecks.scope, laneChecks.components[i].id)} :
            IF found = {}
              THEN laneChecks' = [laneChecks EXCEPT
                     !.unmerged = Append(@, laneChecks.components[i].id),
                     !.position[i] = "done"]
              ELSE laneChecks' = [laneChecks EXCEPT !.position[i] = "hasVersionByRef"]
  /\ UNCHANGED <<lane, laneCall>>
  /\ UNCHANGED checkoutVars
  /\ UNCHANGED historyVars
  /\ UNCHANGED mergerVars
  /\ UNCHANGED pipelineVars

\* lines 218-221: the callback of component i resumes with headExist
HasVersionResolved ==
  /\ pc = "idle"
  /\ laneChecks.running
  /\ \E i \in 1..Len(laneChecks.position) :
       /\ laneChecks.position[i] = "hasVersionByRef"
       /\ \E modelComponent \in getModelComponentIfExist(laneChecks.scope,
                                                         laneChecks.components[i].id) :
            IF hasVersionByRef(modelComponent, laneChecks.components[i].head,
                               modelComponent.head)
              THEN laneChecks' = [laneChecks EXCEPT
                     !.merged = Append(@, laneChecks.components[i].id),
                     !.position[i] = "done"]
              ELSE laneChecks' = [laneChecks EXCEPT
                     !.unmerged = Append(@, laneChecks.components[i].id),
                     !.position[i] = "done"]
  /\ UNCHANGED <<lane, laneCall>>
  /\ UNCHANGED checkoutVars
  /\ UNCHANGED historyVars
  /\ UNCHANGED mergerVars
  /\ UNCHANGED pipelineVars

\* lines 205-207 and 223: Promise.all is settled, { merged, unmerged } is
\* returned and isFullyMerged returns unmerged.length === 0
IsFullyMerged ==
  /\ pc = "idle"
  /\ laneChecks.running
  /\ \A i \in 1..Len(laneChecks.position) : laneChecks.position[i] = "done"
  /\ laneChecks' = [laneChecks EXCEPT !.running = FALSE, !.returned = TRUE]
  /\ laneCall' = [NoLaneCall EXCEPT !.op = "isFullyMerged",
                                    !.returned = Len(laneChecks.unmerged) = 0]
  /\ UNCHANGED lane
  /\ UNCHANGED checkoutVars
  /\ UNCHANGED historyVars
  /\ UNCHANGED mergerVars
  /\ UNCHANGED pipelineVars

\* a lane is created and filled, then asked once; it is not changed while the
\* call is in flight
NextLaneMerged ==
  \/ laneChecks = NoChecks /\ LaneCreate
  \/ laneChecks = NoChecks /\ SetLaneComponents
  \/ GetMergedAndUnmergedIds
  \/ ModelComponentResolved
  \/ HasVersionResolved
  \/ IsFullyMerged

SpecLaneMerged == InitHistory /\ [][NextLaneMerged]_vars

\* component i of the lane is merged: its model component is in the scope and
\* the head the lane holds is reachable from the model component's head
IsMerged(sc, component) ==
  \E m \in sc : /\ m.fullName = component.id.fullName
                /\ component.head \in reachableFrom(m.head)

\* C30: once getMergedAndUnmergedIds has returned, whatever order the checks
\* completed in, every component id of the lane is in exactly one of merged and
\* unmerged and the two lists hold nothing else; a component is in unmerged
\* exactly when its model component is missing or its head is not reachable from
\* the model component's head; isFullyMerged is true iff unmerged is empty, so it
\* is true of a lane without components.
C30_MergedPartition ==
  laneChecks.returned =>
    /\ \A i \in 1..Len(laneChecks.components) :
         /\ (laneChecks.components[i].id \in Range(laneChecks.merged))
              # (laneChecks.components[i].id \in Range(laneChecks.unmerged))
         /\ (laneChecks.components[i].id \in Range(laneChecks.unmerged))
              <=> ~IsMerged(laneChecks.scope, laneChecks.components[i])
    /\ Len(laneChecks.merged) + Len(laneChecks.unmerged) = Len(laneChecks.components)
    /\ laneCall.returned <=> laneChecks.unmerged = <<>>
    /\ laneChecks.components = <<>> => laneCall.returned

\* the same on lanes whose component ids are unique without version
C30_UniqueIdsPartition ==
  UniqueWithoutVersion(laneChecks.components) => C30_MergedPartition

\* two components with the same id have been checked, one merged, one not
C30_SameIdInBoth ==
  /\ laneChecks.returned
  /\ \E i, j \in 1..Len(laneChecks.components) :
       /\ laneChecks.components[i].id = laneChecks.components[j].id
       /\ IsMerged(laneChecks.scope, laneChecks.components[i])
       /\ ~IsMerged(laneChecks.scope, laneChecks.components[j])

\* the checks of two components completed in the order opposite to the lane's
C30_CompletedOutOfOrder ==
  /\ laneChecks.returned
  /\ Len(laneChecks.components) = 2
  /\ UniqueWithoutVersion(laneChecks.components)
  /\ laneChecks.merged = <<laneChecks.components[2].id>>
  /\ laneChecks.unmerged = <<laneChecks.components[1].id>>

\* ---------------------------------------------------------------------------
\* semver, as ConfigMergerMain uses it (part_001 lines 225, 323-335, 352, 372,
\* 391-420, 480-485). A string is the sequence of its characters.
\* ---------------------------------------------------------------------------

Digits == {"0", "1", "2", "3", "4", "5", "6", "7", "8", "9"}

digitValue(c) ==
  CASE c = "0" -> 0 [] c = "1" -> 1 [] c = "2" -> 2 [] c = "3" -> 3 [] c = "4" -> 4
    [] c = "5" -> 5 [] c = "6" -> 6 [] c = "7" -> 7 [] c = "8" -> 8 [] OTHER -> 9

\* a numeric identifier: digits, without a leading zero
isNumeric(s) ==
  /\ Len(s) > 0
  /\ \A i \in 1..Len(s) : s[i] \in Digits
  /\ Len(s) > 1 => s[1] # "0"

RECURSIVE numberOf(_)
numberOf(s) ==
  IF s = <<>> THEN 0
  ELSE 10 * numberOf(SubSeq(s, 1, Len(s) - 1)) + digitValue(s[Len(s)])

\* String.prototype.split on a one-character separator
RECURSIVE splitOn(_, _)
splitOn(s, sep) ==
  IF \A i \in 1..Len(s) : s[i] # sep THEN <<s>>
  ELSE LET k == CHOOSE i \in 1..Len(s) : s[i] = sep /\ \A j \in 1..(i - 1) : s[j] # sep
       IN  <<SubSeq(s, 1, k - 1)>> \o splitOn(SubSeq(s, k + 1, Len(s)), sep)

\* no version: what semver gives for a string it does not parse
NoSemVer == <<>>

\* 'major.minor.patch' as <<major, minor, patch>>
parseSemVer(s) ==
  LET parts == splitOn(s, ".")
  IN  IF Len(parts) = 3 /\ \A i \in 1..3 : isNumeric(parts[i])
        THEN <<numberOf(parts[1]), numberOf(parts[2]), numberOf(parts[3])>>
        ELSE NoSemVer

\* semver.valid(v)
valid(s) == parseSemVer(s) # NoSemVer

\* semver.gt(v1, v2) on parsed versions
gtSemVer(v, w) ==
  \/ v[1] > w[1]
  \/ v[1] = w[1] /\ v[2] > w[2]
  \/ v[1] = w[1] /\ v[2] = w[2] /\ v[3] > w[3]

gteSemVer(v, w) == v = w \/ gtSemVer(v, w)

\* semver.gt(v1, v2)
gt(s, t) == gtSemVer(parseSemVer(s), parseSemVer(t))

\* the operators a comparator or a range starts with, longest first
RangeOperators == <<<<">", "=">>, <<"<", "=">>, <<"^">>, <<"~">>, <<">">>, <<"<">>, <<"=">>>>

NoOperator == <<>>

startsWith(s, prefix) ==
  Len(s) >= Len(prefix) /\ SubSeq(s, 1, Len(prefix)) = prefix

operatorOf(s) ==
  IF \E i \in 1..Len(RangeOperators) : startsWith(s, RangeOperators[i])
    THEN RangeOperators[CHOOSE i \in 1..Len(RangeOperators) :
                          /\ startsWith(s, RangeOperators[i])
                          /\ \A j \in 1..(i - 1) : ~startsWith(s, RangeOperators[j])]
    ELSE NoOperator

isWildcard(part) == part \in {<<"x">>, <<"X">>, <<"*">>}

\* an x-range or a partial version: '*', '1', '1.x', '1.2', '1.2.x'
isXRange(s) ==
  LET parts == splitOn(s, ".")
  IN  /\ Len(parts) \in 1..3
      /\ \A i \in 1..Len(parts) : isNumeric(parts[i]) \/ isWildcard(parts[i])
      /\ \A i \in 1..Len(parts) : isWildcard(parts[i]) =>
                                    \A j \in i..Len(parts) : isWildcard(parts[j])
      /\ Len(parts) = 3 => isWildcard(parts[3])

\* the number of leading numeric parts of an x-range, and their values
xRangeFixed(s) ==
  LET parts == splitOn(s, ".")
  IN  [i \in {j \in 1..Len(parts) : isNumeric(parts[j])} |-> numberOf(parts[i])]

\* no range: what semver gives for a string that is not a range
NoRange == [op |-> <<"invalid">>, version |-> NoSemVer, fixed |-> <<>>]

\* the range a string denotes: an operator and a version, or an x-range
parseRange(s) ==
  LET op   == operatorOf(s)
      rest == SubSeq(s, Len(op) + 1, Len(s))
  IN  IF valid(rest) THEN [op |-> op, version |-> parseSemVer(rest), fixed |-> <<>>]
      ELSE IF op = NoOperator /\ isXRange(s)
        THEN [op |-> <<"x">>, version |-> NoSemVer, fixed |-> xRangeFixed(s)]
      ELSE NoRange

\* semver.validRange(range)
validRange(s) == parseRange(s) # NoRange

\* the versions a caret range stops before
caretUpper(v) ==
  IF v[1] > 0 THEN <<v[1] + 1, 0, 0>>
  ELSE IF v[2] > 0 THEN <<0, v[2] + 1, 0>>
  ELSE <<0, 0, v[3] + 1>>

\* a parsed version is in a parsed range
inRange(v, r) ==
  CASE r.op = <<"^">>      -> gteSemVer(v, r.version) /\ gtSemVer(caretUpper(r.version), v)
    [] r.op = <<"~">>      -> gteSemVer(v, r.version)
                                /\ gtSemVer(<<r.version[1], r.version[2] + 1, 0>>, v)
    [] r.op = <<">", "=">> -> gteSemVer(v, r.version)
    [] r.op = <<">">>      -> gtSemVer(v, r.version)
    [] r.op = <<"<", "=">> -> gteSemVer(r.version, v)
    [] r.op = <<"<">>      -> gtSemVer(r.version, v)
    [] r.op = <<"=">>      -> v = r.version
    [] r.op = NoOperator   -> v = r.version
    [] r.op = <<"x">>      -> \A i \in 1..Len(r.fixed) : v[i] = r.fixed[i]
    [] OTHER               -> FALSE

\* semver.satisfies(version, range): false when either does not parse
satisfies(s, range) ==
  /\ valid(s)
  /\ validRange(range)
  /\ inRange(parseSemVer(s), parseRange(range))

\* semver.minVersion(range) of a valid range: the lowest version in it, or
\* NoSemVer (null) when there is none
minVersion(range) ==
  LET r == parseRange(range)
  IN  CASE r.op \in {<<"^">>, <<"~">>, <<">", "=">>, <<"=">>, NoOperator} -> r.version
        [] r.op = <<">">>  -> <<r.version[1], r.version[2], r.version[3] + 1>>
        [] r.op = <<"<", "=">> -> <<0, 0, 0>>
        [] r.op = <<"<">>  -> IF r.version = <<0, 0, 0>> THEN NoSemVer ELSE <<0, 0, 0>>
        [] r.op = <<"x">>  -> [i \in 1..3 |-> IF i <= Len(r.fixed) THEN r.fixed[i] ELSE 0]
        [] OTHER -> NoSemVer

\* ---------------------------------------------------------------------------
\* ConfigMergerMain.updateWorkspaceJsoncWithDepsIfNeeded (part_001 lines 126-272)
\* ---------------------------------------------------------------------------

\* 'a.b.c' from its three one-digit numbers
dotted(major, minor, patch) == <<major, ".", minor, ".", patch>>

V120 == dotted("1", "2", "0")

V123 == dotted("1", "2", "3")

V130 == dotted("1", "3", "0")

V200 == dotted("2", "0", "0")

Packages == {"p", "q"}

DEPENDENCIES_FIELDS == <<"dependencies", "devDependencies", "peerDependencies">>

WS_DEPS_FIELDS == <<"dependencies", "peerDependencies">>

\* `CONFLICT::${ours}::${theirs}`; the word and the separator are one element each
conflictVersion(ours, theirs) == <<"CONFLICT", "::">> \o ours \o <<"::">> \o theirs

\* String.prototype.includes
includes(s, pattern) ==
  \E k \in 1..(Len(s) - Len(pattern) + 1) : SubSeq(s, k, k + Len(pattern) - 1) = pattern

\* String.prototype.replace with a string pattern: the first occurrence only
replaceFirst(s, pattern, replacement) ==
  IF ~includes(s, pattern) THEN s
  ELSE LET k == CHOOSE i \in 1..(Len(s) - Len(pattern) + 1) :
                  /\ SubSeq(s, i, i + Len(pattern) - 1) = pattern
                  /\ \A j \in 1..(i - 1) : SubSeq(s, j, j + Len(pattern) - 1) # pattern
       IN  SubSeq(s, 1, k - 1) \o replacement \o SubSeq(s, k + Len(pattern), Len(s))

\* the package is not in the workspace policy
NoPolicyEntry == [field |-> "", version |-> <<>>]

\* depResolver.config.policy: per package the field that holds it and its value
SnapHash == <<"4", "f", "9", "a">>

\* the values the workspace policy holds for a dependency: ranges of every
\* form, exact versions, and a snap hash
PolicyValues ==
  {<<"^">> \o V120, <<"~">> \o V120, <<">", "=">> \o V120, <<"1", ".", "x">>,
   V123, V200, SnapHash}

Policies ==
  {[p |-> pe, q |-> qe] :
     pe \in {NoPolicyEntry, [field |-> "peerDependencies", version |-> V123]}
             \cup {[field |-> "dependencies", version |-> v] : v \in PolicyValues},
     qe \in {NoPolicyEntry,
             [field |-> "peerDependencies", version |-> <<"~">> \o V120]}}

\* the dependency lines of workspace.jsonc, one per package of the policy
jsoncOf(policy) ==
  LET line(pkg) == IF policy[pkg] = NoPolicyEntry THEN <<>>
                   ELSE <<[name |-> pkg, version |-> policy[pkg].version]>>
  IN  line("p") \o line("q")

\* the workspace config is read: its policy, and the file it came from
ConfigLoad ==
  /\ pc = "idle"
  /\ wsPolicy = NotLoaded
  /\ \E policy \in Policies :
       /\ wsPolicy' = policy
       /\ wsJsonc' = jsoncOf(policy)
  /\ UNCHANGED mergerCall
  /\ UNCHANGED checkoutVars
  /\ UNCHANGED historyVars
  /\ UNCHANGED laneVars
  /\ UNCHANGED pipelineVars

\* the components whose config merge results are handed over
MaxConfigMerges == 2

\* the entries of mergedConfig.policy: auto-detected, merged without conflict
MergedEntries ==
  {[field |-> "dependencies", name |-> "p", version |-> V200, force |-> FALSE]}

\* the entries of a component's conflict
ConflictEntries ==
  {[field |-> "dependencies", name |-> "p",
    version |-> conflictVersion(V123, V130), force |-> FALSE],
   [field |-> "dependencies", name |-> "p",
    version |-> conflictVersion(V123, V200), force |-> FALSE],
   [field |-> "devDependencies", name |-> "p",
    version |-> conflictVersion(V123, V200), force |-> TRUE],
   [field |-> "peerDependencies", name |-> "q",
    version |-> conflictVersion(V123, V130), force |-> FALSE]}

\* getDepsResolverResult() of one component
DepsResolverResults ==
  [mergedConfig : {{}} \cup {{e} : e \in MergedEntries},
   conflict     : {c \in SUBSET ConflictEntries : Cardinality(c) <= 2}]

AllConfigMerges == UNION {[1..n -> DepsResolverResults] : n \in 1..MaxConfigMerges}

\* lines 132-151: nonConflictDeps[pkgName]
nonConflictDeps(allConfigMerge, pkgName) ==
  {e.version : e \in {m \in UNION {allConfigMerge[i].mergedConfig :
                                     i \in 1..Len(allConfigMerge)} :
                        ~m.force /\ m.name = pkgName}}

\* lines 154-172: conflictDeps[pkgName]
conflictDeps(allConfigMerge, pkgName) ==
  {e.version : e \in {m \in UNION {allConfigMerge[i].conflict :
                                     i \in 1..Len(allConfigMerge)} :
                        ~m.force /\ m.name = pkgName}}

single(set) == CHOOSE x \in set : TRUE

\* lines 186-206: workspaceJsonUpdates, as [name, from, to]
workspaceJsonUpdates(policy, allConfigMerge) ==
  {[name |-> pkgName, from |-> policy[pkgName].version,
    to |-> single(nonConflictDeps(allConfigMerge, pkgName))] :
     pkgName \in {n \in Packages :
                    /\ Cardinality(nonConflictDeps(allConfigMerge, n)) = 1
                    /\ policy[n].field \in Range(DEPENDENCIES_FIELDS)
                    /\ policy[n].version # single(nonConflictDeps(allConfigMerge, n))}}

\* line 199: policy[depField][pkgName] = newVer
policyWithUpdates(policy, allConfigMerge) ==
  [pkgName \in Packages |->
     IF \E u \in workspaceJsonUpdates(policy, allConfigMerge) : u.name = pkgName
       THEN [policy[pkgName] EXCEPT
               !.version = single(nonConflictDeps(allConfigMerge, pkgName))]
       ELSE policy[pkgName]]

\* lines 211-224: conflictPackagesToRemoveFromConfigMerge
conflictPackagesToRemoveFromConfigMerge(policy, allConfigMerge) ==
  {pkgName \in Packages :
     /\ Cardinality(conflictDeps(allConfigMerge, pkgName)) = 1
     /\ policy[pkgName].field \in Range(WS_DEPS_FIELDS)}

\* lines 216-217: const [, currentVal, otherVal] = conflictRaw.split('::')
currentValOf(conflictRaw) == splitOn(conflictRaw, "::")[2]

otherValOf(conflictRaw) == splitOn(conflictRaw, "::")[3]

\* lines 209-241: workspaceJsonConflicts, with the policy as it is in memory
\* when the conflicts are calculated
workspaceJsonConflicts(policy, allConfigMerge) ==
  {[field |-> policy[pkgName].field, name |-> pkgName,
    version |-> replaceFirst(single(conflictDeps(allConfigMerge, pkgName)),
                             currentValOf(single(conflictDeps(allConfigMerge, pkgName))),
                             policy[pkgName].version)] :
     pkgName \in {n \in conflictPackagesToRemoveFromConfigMerge(policy, allConfigMerge) :
                    ~satisfies(otherValOf(single(conflictDeps(allConfigMerge, n))),
                               policy[n].version)}}

\* lines 246-259: the conflicts left in every component's result
withoutPackages(allConfigMerge, toRemove) ==
  [i \in 1..Len(allConfigMerge) |->
     [allConfigMerge[i] EXCEPT !.conflict = {dep \in @ : dep.name \notin toRemove}]]

\* the conflicts are calculated with the policy the update pass has written to
updateWorkspaceJsoncWithDepsIfNeeded(policy, allConfigMerge) ==
  LET updated == policyWithUpdates(policy, allConfigMerge)
  IN  [workspaceDepsUpdates   |-> workspaceJsonUpdates(policy, allConfigMerge),
       workspaceDepsConflicts |-> workspaceJsonConflicts(updated, allConfigMerge),
       results |-> withoutPackages(allConfigMerge,
                     conflictPackagesToRemoveFromConfigMerge(updated, allConfigMerge)),
       policy  |-> updated]

UpdateWorkspaceJsoncWithDepsIfNeeded ==
  /\ pc = "idle"
  /\ wsPolicy # NotLoaded
  /\ \E allConfigMerge \in AllConfigMerges :
       \E r \in {updateWorkspaceJsoncWithDepsIfNeeded(wsPolicy, allConfigMerge)} :
         /\ wsPolicy' = r.policy
         /\ wsJsonc' = jsoncOf(r.policy)
         /\ mergerCall' = [op |-> "updateWorkspaceJsoncWithDepsIfNeeded",
                           policy |-> wsPolicy, allConfigMerge |-> allConfigMerge,
                           workspaceDepsUpdates |-> r.workspaceDepsUpdates,
                           workspaceDepsConflicts |-> r.workspaceDepsConflicts,
                           results |-> r.results]
  /\ UNCHANGED checkoutVars
  /\ UNCHANGED historyVars
  /\ UNCHANGED laneVars
  /\ UNCHANGED pipelineVars

\* the workspace config is read and the merge results are handed over once
NextMerger ==
  \/ ConfigLoad
  \/ mergerCall = NoMergerCall /\ UpdateWorkspaceJsoncWithDepsIfNeeded

SpecMerger == InitHistory /\ [][NextMerger]_vars

\* the conflict entries a component's result holds for a package
conflictsOn(depsResult, pkgName) == {dep \in depsResult.conflict : dep.name = pkgName}

\* the package was promoted: it is in the workspace policy the call was made
\* with and the components' conflicts on it are one tuple
Promoted(pkgName) ==
  /\ mergerCall.policy[pkgName].field \in Range(WS_DEPS_FIELDS)
  /\ Cardinality(conflictDeps(mergerCall.allConfigMerge, pkgName)) = 1

\* C31: after updateWorkspaceJsoncWithDepsIfNeeded, for a package of the
\* workspace policy whose aggregated conflicts are a single tuple (ours, theirs):
\* if theirs satisfies the workspace's range no workspace-level conflict is
\* recorded for it, and compatible or not the package is in no component's
\* conflict set any more; a package with more than one distinct tuple, or
\* absent from the workspace policy, keeps its per-component conflicts.
C31_Compatibility ==
  mergerCall.op = "updateWorkspaceJsoncWithDepsIfNeeded" =>
    \A pkgName \in Packages :
      /\ Promoted(pkgName) =>
           /\ satisfies(otherValOf(single(conflictDeps(mergerCall.allConfigMerge, pkgName))),
                        mergerCall.policy[pkgName].version)
                => \A c \in mergerCall.workspaceDepsConflicts : c.name # pkgName
           /\ \A i \in 1..Len(mergerCall.results) :
                conflictsOn(mergerCall.results[i], pkgName) = {}
      /\ (\/ Cardinality(conflictDeps(mergerCall.allConfigMerge, pkgName)) > 1
          \/ mergerCall.policy[pkgName] = NoPolicyEntry) =>
           \A i \in 1..Len(mergerCall.results) :
             conflictsOn(mergerCall.results[i], pkgName)
               = conflictsOn(mergerCall.allConfigMerge[i], pkgName)

\* the same for the calls that do not update the workspace value of a package
\* they promote
C31_CompatibilityWithoutUpdate ==
  (/\ mergerCall.op = "updateWorkspaceJsoncWithDepsIfNeeded"
   /\ \A u \in mergerCall.workspaceDepsUpdates : ~Promoted(u.name))
    => C31_Compatibility

\* a compatible conflict was promoted and dropped, the policy being left alone
C31_CompatibleDropped ==
  /\ mergerCall.op = "updateWorkspaceJsoncWithDepsIfNeeded"
  /\ mergerCall.workspaceDepsUpdates = {}
  /\ mergerCall.workspaceDepsConflicts = {}
  /\ Promoted("p")
  /\ \E i \in 1..Len(mergerCall.allConfigMerge) :
       conflictsOn(mergerCall.allConfigMerge[i], "p") # {}

\* ---------------------------------------------------------------------------
\* ConfigMergerMain.writeWorkspaceJsoncWithConflicts(Gracefully)
\* (part_001 lines 56-124). workspace.jsonc is the sequence of its dependency
\* lines, "name": "version", and of the conflict markers written into it.
\* ---------------------------------------------------------------------------

\* `"${name}": "${version}"`
depLine(name, version) == [name |-> name, version |-> version]

markerLine(marker) == [name |-> marker, version |-> <<>>]

\* parseVersionLineWithConflict(version): { currentVal, otherVal }
parseVersionLineWithConflict(version) ==
  [currentVal |-> currentValOf(version), otherVal |-> otherValOf(version)]

\* lines 85-96: every conflicting dependency is looked up with the value ours
\* has and replaced by the value theirs has; found is false when a line was
\* not there (line 92 throws)
RECURSIVE replaceDeps(_, _)
replaceDeps(wsJsoncContent, conflicts) ==
  IF conflicts = <<>> THEN [found |-> TRUE, content |-> wsJsoncContent]
  ELSE LET vals        == parseVersionLineWithConflict(Head(conflicts).version)
           originalDep == <<depLine(Head(conflicts).name, vals.currentVal)>>
       IN  IF ~includes(wsJsoncContent, originalDep)
             THEN [found |-> FALSE, content |-> wsJsoncContent]
             ELSE replaceDeps(replaceFirst(wsJsoncContent, originalDep,
                                           <<depLine(Head(conflicts).name, vals.otherVal)>>),
                              Tail(conflicts))

\* mergeFiles with an empty base: no conflict when both files are the same,
\* otherwise the two contents between the markers of ours and theirs
NoConflictFile == <<>>

mergeFiles(currentFile, otherFile) ==
  IF currentFile = otherFile THEN NoConflictFile
  ELSE <<markerLine("<<<<<<< ours")>> \o currentFile \o <<markerLine("=======")>>
         \o otherFile \o <<markerLine(">>>>>>> theirs")>>

\* the calls of writeWorkspaceJsoncWithConflicts that can fail for a reason
\* outside the program, in the order they are made
IOFailures ==
  {"none", "workspaceConfig", "readFile", "tempy.write", "mergeFiles", "backupConfigFile",
   "writeFile"}

\* what a failing fs.writeFile can leave in the file
afterFailedWrite(original, conflictFile) == {original, conflictFile, <<>>}

\* lines 79-124: the outcomes of writeWorkspaceJsoncWithConflicts, the error
\* it throws if any and the content of workspace.jsonc it leaves
writeBeforeBackup(wsJsoncOriginalContent, conflicts, failure) ==
  LET replaced     == replaceDeps(wsJsoncOriginalContent, conflicts)
      conflictFile == mergeFiles(wsJsoncOriginalContent, replaced.content)
  IN  IF failure \in {"workspaceConfig", "readFile"}
        THEN {[thrown |-> failure, content |-> wsJsoncOriginalContent]}
      ELSE IF ~replaced.found
        THEN {[thrown |-> "unable to find the dependency",
               content |-> wsJsoncOriginalContent]}
      ELSE IF failure \in {"tempy.write", "mergeFiles"}
        THEN {[thrown |-> failure, content |-> wsJsoncOriginalContent]}
      ELSE IF conflictFile = NoConflictFile
        THEN {[thrown |-> "unable to generate conflict",
               content |-> wsJsoncOriginalContent]}
      ELSE IF failure = "backupConfigFile"
        THEN {[thrown |-> failure, content |-> conflictFile]}
      ELSE IF failure = "writeFile"
        THEN {[thrown |-> failure, content |-> c] :
                c \in afterFailedWrite(wsJsoncOriginalContent, conflictFile)}
      ELSE {[thrown |-> "none", content |-> conflictFile]}

writeWorkspaceJsoncWithConflicts(wsJsoncOriginalContent, conflicts, failure) ==
  LET replaced     == replaceDeps(wsJsoncOriginalContent, conflicts)
      conflictFile == mergeFiles(wsJsoncOriginalContent, replaced.content)
  IN  IF failure \in {"workspaceConfig", "readFile"}
        THEN {[thrown |-> failure, content |-> wsJsoncOriginalContent]}
      ELSE IF ~replaced.found
        THEN {[thrown |-> "unable to find the dependency",
               content |-> wsJsoncOriginalContent]}
      ELSE IF failure \in {"tempy.write", "mergeFiles"}
        THEN {[thrown |-> failure, content |-> wsJsoncOriginalContent]}
      ELSE IF conflictFile = NoConflictFile
        THEN {[thrown |-> "unable to generate conflict",
               content |-> wsJsoncOriginalContent]}
      ELSE IF failure = "backupConfigFile"
        THEN {[thrown |-> failure, content |-> wsJsoncOriginalContent]}
      ELSE IF failure = "writeFile"
        THEN {[thrown |-> failure, content |-> c] :
                c \in afterFailedWrite(wsJsoncOriginalContent, conflictFile)}
      ELSE {[thrown |-> "none", content |-> conflictFile]}

\* no error: writeWorkspaceJsoncWithConflictsGracefully returned undefined
NoWriteError == [isError |-> FALSE, cause |-> "none", conflicts |-> <<>>]

\* lines 64-75: the BitError, its cause and the line it has per conflict
conflictsStr(conflicts) ==
  [i \in 1..Len(conflicts) |->
     [depField |-> conflicts[i].field, name |-> conflicts[i].name,
      ours   |-> parseVersionLineWithConflict(conflicts[i].version).currentVal,
      theirs |-> parseVersionLineWithConflict(conflicts[i].version).otherVal]]

\* lines 56-77: what the call returns and the content it leaves
writeWorkspaceJsoncWithConflictsGracefully(content, conflicts, failure) ==
  {[error   |-> IF o.thrown = "none" THEN NoWriteError
                ELSE [isError |-> TRUE, cause |-> o.thrown,
                      conflicts |-> conflictsStr(conflicts)],
    content |-> o.content] :
     o \in writeWorkspaceJsoncWithConflicts(content, conflicts, failure)}

\* the WorkspaceDepsConflicts the call is made with, dependencies first: values
\* the file has or does not have, for packages it has or does not have
WrittenConflicts ==
  {[field |-> "dependencies", name |-> "p",
    version |-> conflictVersion(<<"^">> \o V120, V200)],
   [field |-> "dependencies", name |-> "p", version |-> conflictVersion(V123, V200)],
   [field |-> "dependencies", name |-> "p", version |-> conflictVersion(V123, V123)],
   [field |-> "peerDependencies", name |-> "q",
    version |-> conflictVersion(<<"~">> \o V120, V130)]}

MaxConflicts == 2

WorkspaceDepsConflicts ==
  {cs \in UNION {[1..n -> WrittenConflicts] : n \in 1..MaxConflicts} :
     \A i, j \in 1..Len(cs) :
       (i < j /\ cs[i].field = "peerDependencies") => cs[j].field = "peerDependencies"}

\* the file holds no conflict markers: nothing was written into it yet
hasNoMarkers(content) ==
  \A i \in 1..Len(content) : content[i].version # <<>>

\* the conflicts are written into a file that holds none
WriteWorkspaceJsoncWithConflictsGracefully ==
  /\ pc = "idle"
  /\ wsPolicy # NotLoaded
  /\ hasNoMarkers(wsJsonc)
  /\ \E conflicts \in WorkspaceDepsConflicts, failure \in IOFailures :
       \E o \in writeWorkspaceJsoncWithConflictsGracefully(wsJsonc, conflicts, failure) :
         /\ wsJsonc' = o.content
         /\ mergerCall' = [op |-> "writeWorkspaceJsoncWithConflictsGracefully",
                           workspaceDepsConflicts |-> conflicts, failure |-> failure,
                           wsJsoncOriginalContent |-> wsJsonc, error |-> o.error]
  /\ UNCHANGED wsPolicy
  /\ UNCHANGED checkoutVars
  /\ UNCHANGED historyVars
  /\ UNCHANGED laneVars
  /\ UNCHANGED pipelineVars

NextWrite == ConfigLoad \/ WriteWorkspaceJsoncWithConflictsGracefully

SpecWrite == InitHistory /\ [][NextWrite]_vars

\* C33: writeWorkspaceJsoncWithConflictsGracefully never raises, it returns;
\* when anything failed before the final write (workspace config missing, file
\* not read, dependency line not found, temporary file, merger failing or giving
\* no conflict output, backup) it returns an error that lists every conflict as
\* ours/theirs and the content of workspace.jsonc is the one it had; when
\* nothing failed it returns no error and the file holds the conflict-marked
\* content of the original and of the content with theirs' values.
C33_GracefulWrite ==
  mergerCall.op = "writeWorkspaceJsoncWithConflictsGracefully" =>
    LET before   == mergerCall.wsJsoncOriginalContent
        replaced == replaceDeps(before, mergerCall.workspaceDepsConflicts)
        failed   == \/ mergerCall.failure # "none"
                    \/ ~replaced.found
                    \/ replaced.content = before
    IN  /\ failed <=> mergerCall.error.isError
        /\ (failed /\ mergerCall.failure # "writeFile") =>
             /\ wsJsonc = before
             /\ Len(mergerCall.error.conflicts) = Len(mergerCall.workspaceDepsConflicts)
             /\ \A i \in 1..Len(mergerCall.workspaceDepsConflicts) :
                  mergerCall.workspaceDepsConflicts[i].version
                    = conflictVersion(mergerCall.error.conflicts[i].ours,
                                      mergerCall.error.conflicts[i].theirs)
        /\ ~failed =>
             /\ wsJsonc # before
             /\ includes(wsJsonc, <<markerLine("<<<<<<< ours")>> \o before)
             /\ includes(wsJsonc, replaced.content \o <<markerLine(">>>>>>> theirs")>>)

\* a dependency line was not found after another was, and the file is as it was
C33_Witness ==
  /\ mergerCall.op = "writeWorkspaceJsoncWithConflictsGracefully"
  /\ mergerCall.failure = "none"
  /\ mergerCall.error.isError
  /\ mergerCall.error.cause = "unable to find the dependency"
  /\ Len(mergerCall.workspaceDepsConflicts) = 2
  /\ replaceDeps(wsJsonc, <<mergerCall.workspaceDepsConflicts[1]>>).found
  /\ wsJsonc = mergerCall.wsJsoncOriginalContent
  /\ wsJsonc # <<>>

\* ---------------------------------------------------------------------------
\* ConfigMergerMain.updateDepsInWorkspaceConfig (part_001 lines 274-485)
\* ---------------------------------------------------------------------------

V125 == dotted("1", "2", "5")

\* the component does not depend on the package
NoDep == <<>>

\* the versions components have for an auto-detected dependency
ComponentValues ==
  {V125, V130, V200, <<"^">> \o V120, <<"^">> \o V130, SnapHash}

\* getDependenciesFromLegacyComponent(component), the auto-detected ones
ComponentDeps == [p : ComponentValues \cup {NoDep}, q : {NoDep, V130}]

MaxComponents == 2

ComponentLists == UNION {[1..n -> ComponentDeps] : n \in 1..MaxComponents}

\* lines 280-292: componentDepsWithMultipleVer[depId]
componentDepsWithMultipleVer(policy, components, depId) ==
  {components[i][depId] : i \in {j \in 1..Len(components) :
                                   /\ components[j][depId] # NoDep
                                   /\ policy[depId] # NoPolicyEntry
                                   /\ policy[depId].version # components[j][depId]}}

\* lines 304-309: the dependencies all components have one version of
componentDeps(policy, components) ==
  {depId \in Packages : Cardinality(componentDepsWithMultipleVer(policy, components, depId)) = 1}

\* what the closures of one dependency have done when its callback ends
NothingDone == [update |-> <<>>, conflict |-> <<>>, notUpdated |-> FALSE, thrown |-> FALSE]

\* lines 326-328
addNotUpdateToLogs == [NothingDone EXCEPT !.notUpdated = TRUE]

\* lines 347-364: the first character of ours is put in front of theirs
addToUpdate(depInWsVer, depInCompVer, addRangeFrom) ==
  IF addRangeFrom
    THEN LET potentialRangeChar == <<depInWsVer[1]>>
             newRange           == potentialRangeChar \o depInCompVer
         IN  IF ~validRange(newRange) THEN addNotUpdateToLogs
             ELSE [NothingDone EXCEPT !.update = <<depInWsVer, newRange>>]
    ELSE [NothingDone EXCEPT !.update = <<depInWsVer, depInCompVer>>]

\* lines 365-368
addToConflict(depInWsVer, depInCompVer) ==
  [NothingDone EXCEPT !.conflict = conflictVersion(depInWsVer, depInCompVer)]

\* lines 480-485
isRange1GreaterThanRange2Naively(range1, range2) ==
  /\ minVersion(range1) # NoSemVer
  /\ minVersion(range2) # NoSemVer
  /\ gtSemVer(minVersion(range1), minVersion(range2))

\* lines 424-426: the reason is logged, then the callback throws
unhandledCase == [addNotUpdateToLogs EXCEPT !.thrown = TRUE]

\* lines 320-427: the callback of one dependency
classifyDep(depInWsVer, depInCompVer) ==
  LET isDepInCompVersion == valid(depInCompVer)
      isDepInCompRange   == ~isDepInCompVersion /\ validRange(depInCompVer)
      isDepInWsVersion   == valid(depInWsVer)
      isDepInWsRange     == ~isDepInWsVersion /\ validRange(depInWsVer)
  IN  IF ~isDepInCompVersion /\ ~isDepInCompRange THEN addNotUpdateToLogs
      ELSE IF ~isDepInWsVersion /\ ~isDepInWsRange THEN addNotUpdateToLogs
      ELSE IF isDepInCompVersion /\ isDepInWsVersion
        THEN IF gt(depInCompVer, depInWsVer) THEN addToConflict(depInWsVer, depInCompVer)
             ELSE addNotUpdateToLogs
      ELSE IF isDepInCompRange /\ isDepInWsRange
        THEN IF isRange1GreaterThanRange2Naively(depInCompVer, depInWsVer)
               THEN addToUpdate(depInWsVer, depInCompVer, FALSE)
               ELSE addNotUpdateToLogs
      ELSE IF isDepInCompVersion /\ isDepInWsRange
        THEN IF minVersion(depInWsVer) = NoSemVer THEN addNotUpdateToLogs
             ELSE IF gtSemVer(minVersion(depInWsVer), parseSemVer(depInCompVer))
               THEN addNotUpdateToLogs
             ELSE IF satisfies(depInCompVer, depInWsVer)
               THEN addToUpdate(depInWsVer, depInCompVer, TRUE)
             ELSE addToConflict(depInWsVer, depInCompVer)
      ELSE IF satisfies(depInWsVer, depInCompVer)
        THEN addToUpdate(depInWsVer, depInCompVer, FALSE)
      ELSE IF minVersion(depInCompVer) = NoSemVer THEN addNotUpdateToLogs
      ELSE IF gtSemVer(minVersion(depInCompVer), parseSemVer(depInWsVer))
        THEN addToConflict(depInWsVer, depInCompVer)
      ELSE unhandledCase

\* what the callback of lines 320-427 did for each dependency of componentDeps
outcomesOf(policy, components) ==
  [depId \in componentDeps(policy, components) |->
     classifyDep(policy[depId].version,
                 single(componentDepsWithMultipleVer(policy, components, depId)))]

\* lines 342-345 and 366: the conflicts of one lifecycle, in the order of the keys
conflictsOfField(policy, outcomes, depField) ==
  LET entry(depId) ==
        IF /\ depId \in DOMAIN outcomes
           /\ outcomes[depId].conflict # <<>>
           /\ policy[depId].field = depField
          THEN <<[field |-> depField, name |-> depId, version |-> outcomes[depId].conflict]>>
          ELSE <<>>
  IN  entry("p") \o entry("q")

\* lines 451-472: addToRootPolicy(newWorkspacePolicyEntries, updateExisting)
updateWsConfigWithGivenChanges(policy, outcomes) ==
  [depId \in Packages |->
     IF depId \in DOMAIN outcomes /\ outcomes[depId].update # <<>>
       THEN [policy[depId] EXCEPT !.version = outcomes[depId].update[2]]
       ELSE policy[depId]]

\* the call did nothing: no candidate (line 312), or a callback threw (line 426)
\* before anything was written
UpdateDepsInWorkspaceConfigInVain(components, outcomes) ==
  /\ \/ DOMAIN outcomes = {}
     \/ \E depId \in DOMAIN outcomes : outcomes[depId].thrown
  /\ mergerCall' = [op |-> "updateDepsInWorkspaceConfig", policy |-> wsPolicy,
                    components |-> components, outcomes |-> outcomes,
                    thrown |-> DOMAIN outcomes # {},
                    workspaceDepsConflicts |-> <<>>,
                    workspaceConfigConflictWriteError |-> NoWriteError]
  /\ UNCHANGED <<wsPolicy, wsJsonc>>

\* lines 429-448: the policy is updated and persisted, the conflicts are written
UpdateDepsInWorkspaceConfigWriting(components, outcomes) ==
  /\ DOMAIN outcomes # {}
  /\ \A depId \in DOMAIN outcomes : ~outcomes[depId].thrown
  /\ \E policy \in {updateWsConfigWithGivenChanges(wsPolicy, outcomes)},
        conflicts \in {conflictsOfField(wsPolicy, outcomes, "dependencies")
                         \o conflictsOfField(wsPolicy, outcomes, "peerDependencies")} :
       /\ wsPolicy' = policy
       /\ \E persisted \in {IF policy = wsPolicy THEN wsJsonc ELSE jsoncOf(policy)} :
            IF conflicts = <<>>
              THEN /\ wsJsonc' = persisted
                   /\ mergerCall' =
                        [op |-> "updateDepsInWorkspaceConfig", policy |-> wsPolicy,
                         components |-> components, outcomes |-> outcomes,
                         thrown |-> FALSE, workspaceDepsConflicts |-> conflicts,
                         workspaceConfigConflictWriteError |-> NoWriteError]
              ELSE \E failure \in IOFailures :
                     \E o \in writeWorkspaceJsoncWithConflictsGracefully(
                                persisted, conflicts, failure) :
                       /\ wsJsonc' = o.content
                       /\ mergerCall' =
                            [op |-> "updateDepsInWorkspaceConfig", policy |-> wsPolicy,
                             components |-> components, outcomes |-> outcomes,
                             thrown |-> FALSE, workspaceDepsConflicts |-> conflicts,
                             workspaceConfigConflictWriteError |-> o.error]

UpdateDepsInWorkspaceConfig ==
  /\ pc = "idle"
  /\ wsPolicy # NotLoaded
  /\ hasNoMarkers(wsJsonc)
  /\ \E components \in ComponentLists :
       \E outcomes \in {outcomesOf(wsPolicy, components)} :
         \/ UpdateDepsInWorkspaceConfigInVain(components, outcomes)
         \/ UpdateDepsInWorkspaceConfigWriting(components, outcomes)
  /\ UNCHANGED checkoutVars
  /\ UNCHANGED historyVars
  /\ UNCHANGED laneVars
  /\ UNCHANGED pipelineVars

\* the workspace config is read and the dependencies are updated once
NextDeps ==
  \/ ConfigLoad
  \/ mergerCall = NoMergerCall /\ UpdateDepsInWorkspaceConfig

SpecDeps == InitHistory /\ [][NextDeps]_vars

\* the value the components have for a candidate dependency of the last call
theirsOf(depId) ==
  single(componentDepsWithMultipleVer(mergerCall.policy, mergerCall.components, depId))

oursOf(depId) == mergerCall.policy[depId].version

\* theirs is an exact version, ours a range, and theirs satisfies ours
VersionInRange(depId) ==
  /\ valid(theirsOf(depId))
  /\ ~valid(oursOf(depId))
  /\ validRange(oursOf(depId))
  /\ satisfies(theirsOf(depId), oursOf(depId))

\* C32: when updateDepsInWorkspaceConfig returns, for every dependency whose
\* single component value (theirs) is an exact version that satisfies the range
\* the workspace policy holds (ours), the update [ours, R] is scheduled and no
\* conflict is recorded, R being theirs with the range operator of ours in
\* front (^1.2.0 and 1.3.0 give ^1.3.0, >=1.2.0 and 1.3.0 give >=1.3.0) and,
\* for an x-range, which has no operator, a range theirs is in.
C32_UpdateKeepsOperator ==
  (mergerCall.op = "updateDepsInWorkspaceConfig" /\ ~mergerCall.thrown) =>
    \A depId \in DOMAIN mergerCall.outcomes :
      VersionInRange(depId) =>
        /\ mergerCall.outcomes[depId].conflict = <<>>
        /\ mergerCall.outcomes[depId].update # <<>>
        /\ mergerCall.outcomes[depId].update[1] = oursOf(depId)
        /\ IF operatorOf(oursOf(depId)) # NoOperator
             THEN mergerCall.outcomes[depId].update[2]
                    = operatorOf(oursOf(depId)) \o theirsOf(depId)
             ELSE /\ validRange(mergerCall.outcomes[depId].update[2])
                  /\ satisfies(theirsOf(depId), mergerCall.outcomes[depId].update[2])

\* the same for the ranges whose operator is one character, caret and tilde
C32_CaretAndTilde ==
  (/\ mergerCall.op = "updateDepsInWorkspaceConfig"
   /\ \A depId \in DOMAIN mergerCall.outcomes :
        VersionInRange(depId) => operatorOf(oursOf(depId)) \in {<<"^">>, <<"~">>})
    => C32_UpdateKeepsOperator

\* ~1.2.0 in the workspace and 1.2.5 in the components gave ~1.2.5
C32_TildeKept ==
  /\ mergerCall.op = "updateDepsInWorkspaceConfig"
  /\ "p" \in DOMAIN mergerCall.outcomes
  /\ mergerCall.outcomes["p"].update = <<(<<"~">> \o V120), (<<"~">> \o V125)>>
  /\ wsPolicy["p"].version = <<"~">> \o V125

\* each side is a version or a range
BothSemver(depId) ==
  /\ valid(oursOf(depId)) \/ validRange(oursOf(depId))
  /\ valid(theirsOf(depId)) \/ validRange(theirsOf(depId))

\* the number of the three ends a dependency has come to
endsOf(outcome) ==
  Cardinality({k \in {"update", "conflict", "notUpdated"} :
                 \/ k = "update" /\ outcome.update # <<>>
                 \/ k = "conflict" /\ outcome.conflict # <<>>
                 \/ k = "notUpdated" /\ outcome.notUpdated})

\* C38: updateDepsInWorkspaceConfig never raises, and every candidate
\* dependency of which each side is a version or a range ends in exactly one
\* of scheduled update, recorded conflict CONFLICT::<ours>::<theirs>, not
\* updated; a dependency of which a side is not valid semver is skipped
\* without update or conflict.
C38_TotalClassification ==
  mergerCall.op = "updateDepsInWorkspaceConfig" =>
    /\ ~mergerCall.thrown
    /\ \A depId \in DOMAIN mergerCall.outcomes :
         /\ BothSemver(depId) => endsOf(mergerCall.outcomes[depId]) = 1
         /\ mergerCall.outcomes[depId].conflict # <<>> =>
              mergerCall.outcomes[depId].conflict
                = conflictVersion(oursOf(depId), theirsOf(depId))
         /\ ~BothSemver(depId) =>
              /\ mergerCall.outcomes[depId].update = <<>>
              /\ mergerCall.outcomes[depId].conflict = <<>>

\* the case the callback does not return from: theirs is a range ours is not
\* in, and the lowest version of theirs is not greater than ours
Unhandled(depId) ==
  /\ valid(oursOf(depId))
  /\ ~valid(theirsOf(depId)) /\ validRange(theirsOf(depId))
  /\ ~satisfies(oursOf(depId), theirsOf(depId))
  /\ minVersion(theirsOf(depId)) # NoSemVer
  /\ ~gtSemVer(minVersion(theirsOf(depId)), parseSemVer(oursOf(depId)))

\* the same for the calls without such a dependency
C38_TotalButUnhandled ==
  (/\ mergerCall.op = "updateDepsInWorkspaceConfig"
   /\ \A depId \in DOMAIN mergerCall.outcomes : ~Unhandled(depId))
    => C38_TotalClassification

\* a conflict was recorded for one dependency and an update for the other
C38_ConflictAndUpdate ==
  /\ mergerCall.op = "updateDepsInWorkspaceConfig"
  /\ ~mergerCall.thrown
  /\ \E d, e \in DOMAIN mergerCall.outcomes :
       /\ mergerCall.outcomes[d].conflict # <<>>
       /\ mergerCall.outcomes[e].update # <<>>

\* ---------------------------------------------------------------------------
\* CheckoutMain.checkout step by step (part_000 lines 80-185): every await is
\* a step, the calls of a Promise.all resolve in any order
\* ---------------------------------------------------------------------------

\* what getComponentStatusBeforeMergeAttempt gave for a component: propsForMerge,
\* neither propsForMerge nor failureMessage, a failureMessage, or a
\* failureMessage with shouldBeRemoved
StatusKinds == {"needsMerge", "noMerge", "failed", "shouldBeRemoved"}

Begin(step, c) == <<"begin", step, c>>

End(step, c) == <<"end", step, c>>

\* the components of a kind, in the order of the ids
ofKind(kinds, wanted) ==
  SelectSeq(ComponentOrder, LAMBDA c : kinds[c] \in wanted)

\* lines 83 and 103: compsNeedMerge.map((c) => this.getMergeStatus(c))
beginAll(step, comps) == [i \in 1..Len(comps) |-> Begin(step, comps[i])]

\* line 135: succeededComponents, the merged ones first (line 114)
succeededComponents(kinds) == ofKind(kinds, {"needsMerge"}) \o ofKind(kinds, {"noMerge"})

\* lines 179-181: componentIdsToRemove
componentIdsToRemove(kinds) == ofKind(kinds, {"shouldBeRemoved"})

\* line 80-98: the statuses are there, the import of the missing versions begins
CheckoutStarts ==
  /\ pc = "idle"
  /\ pipeline = NoPipeline
  /\ \E kinds \in [Comps -> StatusKinds], hasStrategy \in BOOLEAN :
       pipeline' = [NoPipeline EXCEPT
                      !.phase = "importManyIfMissingWithoutDeps",
                      !.kinds = kinds, !.hasStrategy = hasStrategy,
                      !.log = <<Begin("importManyIfMissingWithoutDeps", "")>>]
  /\ UNCHANGED checkoutVars
  /\ UNCHANGED historyVars
  /\ UNCHANGED laneVars
  /\ UNCHANGED mergerVars

\* lines 96-103: the import resolves, or rejects and checkout throws; after it
\* the Tmp is made and getMergeStatus is called for every component to merge
ImportManyResolved ==
  /\ pc = "idle"
  /\ pipeline.phase = "importManyIfMissingWithoutDeps"
  /\ \/ pipeline' = [pipeline EXCEPT
                       !.phase = "thrown", !.error = "importManyIfMissingWithoutDeps",
                       !.log = Append(@, <<"fail", "importManyIfMissingWithoutDeps", "">>)]
     \/ pipeline' = [pipeline EXCEPT
                       !.phase = "Promise.all", !.tmp = "created",
                       !.pending = Range(ofKind(pipeline.kinds, {"needsMerge"})),
                       !.log = Append(@, End("importManyIfMissingWithoutDeps", ""))
                                 \o beginAll("getMergeStatus",
                                             ofKind(pipeline.kinds, {"needsMerge"}))]
  /\ UNCHANGED checkoutVars
  /\ UNCHANGED historyVars
  /\ UNCHANGED laneVars
  /\ UNCHANGED mergerVars

\* lines 106-108: the catch block begins to clear the Tmp, the error is kept
catchWithoutClear(pl, err) == [pl EXCEPT !.phase = "thrown", !.error = err]

catch(pl, err) ==
  [pl EXCEPT !.phase = "catch: tmp.clear", !.error = err,
             !.log = Append(@, Begin("tmp.clear", ""))]

\* line 103: one getMergeStatus settles; the first rejection rejects the
\* Promise.all, whatever is still pending, and later ones go unnoticed
GetMergeStatusSettled ==
  /\ pc = "idle"
  /\ \E c \in pipeline.pending :
       \/ \E hasConflicts \in BOOLEAN :
            pipeline' = [pipeline EXCEPT
                           !.pending = @ \ {c},
                           !.conflicts = IF hasConflicts /\ pipeline.phase = "Promise.all"
                                           THEN @ \cup {c} ELSE @,
                           !.log = Append(@, End("getMergeStatus", c))]
       \/ \E settled \in {[pipeline EXCEPT
                             !.pending = @ \ {c},
                             !.log = Append(@, <<"fail", "getMergeStatus", c>>)]} :
            pipeline' = IF pipeline.phase = "Promise.all" THEN catch(settled, c)
                        ELSE settled
  /\ UNCHANGED checkoutVars
  /\ UNCHANGED historyVars
  /\ UNCHANGED laneVars
  /\ UNCHANGED mergerVars

\* Promise.all resolves when any of its promises has, not when all have
anySettled(pl) == pl.pending # Range(ofKind(pl.kinds, {"needsMerge"})) \/ pl.pending = {}

\* Promise.all resolves when every one of its promises has resolved
allSettled(pl) == pl.pending = {}

\* lines 103-104: the Promise.all resolves, the Tmp is cleared
PromiseAllResolved ==
  /\ pc = "idle"
  /\ pipeline.phase = "Promise.all"
  /\ allSettled(pipeline)
  /\ pipeline' = [pipeline EXCEPT !.phase = "try: tmp.clear",
                                  !.log = Append(@, Begin("tmp.clear", ""))]
  /\ UNCHANGED checkoutVars
  /\ UNCHANGED historyVars
  /\ UNCHANGED laneVars
  /\ UNCHANGED mergerVars

\* lines 104-125 and 139: the Tmp is cleared; after a rejection the error is
\* thrown again, a conflict without a strategy throws, otherwise mapSeries begins
TmpClearResolved ==
  /\ pc = "idle"
  /\ pipeline.phase \in {"try: tmp.clear", "catch: tmp.clear"}
  /\ \E cleared \in {[pipeline EXCEPT !.tmp = "cleared",
                                      !.log = Append(@, End("tmp.clear", ""))]} :
       pipeline' =
         IF pipeline.phase = "catch: tmp.clear" THEN [cleared EXCEPT !.phase = "thrown"]
         ELSE IF pipeline.conflicts # {} /\ ~pipeline.hasStrategy
           THEN [cleared EXCEPT !.phase = "thrown", !.error = "GeneralError"]
         ELSE [cleared EXCEPT !.phase = "mapSeries",
                              !.queue = succeededComponents(pipeline.kinds)]
  /\ UNCHANGED checkoutVars
  /\ UNCHANGED historyVars
  /\ UNCHANGED laneVars
  /\ UNCHANGED mergerVars

\* lines 139-144: mapSeries calls applyVersion for the next component
ApplyVersionStarts ==
  /\ pc = "idle"
  /\ pipeline.phase = "mapSeries"
  /\ pipeline.applying = {}
  /\ pipeline.queue # <<>>
  /\ pipeline' = [pipeline EXCEPT
                    !.applying = {Head(pipeline.queue)}, !.queue = Tail(@),
                    !.log = Append(@, Begin("applyVersion", Head(pipeline.queue)))]
  /\ UNCHANGED checkoutVars
  /\ UNCHANGED historyVars
  /\ UNCHANGED laneVars
  /\ UNCHANGED mergerVars

ApplyVersionResolved ==
  /\ pc = "idle"
  /\ pipeline.phase = "mapSeries"
  /\ \E c \in pipeline.applying :
       pipeline' = [pipeline EXCEPT !.applying = {}, !.applied = Append(@, c),
                                    !.log = Append(@, End("applyVersion", c))]
  /\ UNCHANGED checkoutVars
  /\ UNCHANGED historyVars
  /\ UNCHANGED laneVars
  /\ UNCHANGED mergerVars

\* lines 179-185: removeLocallyByIds is called if there is an id to remove
removeOrReturn(pl) ==
  IF componentIdsToRemove(pl.kinds) # <<>>
    THEN [pl EXCEPT !.phase = "removeLocallyByIds",
                    !.log = Append(@, Begin("removeLocallyByIds", ""))]
    ELSE [pl EXCEPT !.phase = "returned"]

\* lines 144-173: mapSeries resolves; writeMany is called if componentsLegacy
\* holds a component
MapSeriesResolved ==
  /\ pc = "idle"
  /\ pipeline.phase = "mapSeries"
  /\ pipeline.applying = {}
  /\ pipeline.queue = <<>>
  /\ pipeline' = IF pipeline.applied # <<>>
                   THEN [pipeline EXCEPT !.phase = "writeMany",
                                         !.log = Append(@, Begin("writeMany", ""))]
                   ELSE removeOrReturn(pipeline)
  /\ UNCHANGED checkoutVars
  /\ UNCHANGED historyVars
  /\ UNCHANGED laneVars
  /\ UNCHANGED mergerVars

\* lines 173-174
WriteManyResolved ==
  /\ pc = "idle"
  /\ pipeline.phase = "writeMany"
  /\ pipeline' = [pipeline EXCEPT
                    !.phase = "deleteFilesIfNeeded",
                    !.log = @ \o <<End("writeMany", ""), Begin("deleteFilesIfNeeded", "")>>]
  /\ UNCHANGED checkoutVars
  /\ UNCHANGED historyVars
  /\ UNCHANGED laneVars
  /\ UNCHANGED mergerVars

\* lines 174-185
DeleteFilesIfNeededResolved ==
  /\ pc = "idle"
  /\ pipeline.phase = "deleteFilesIfNeeded"
  /\ pipeline' = removeOrReturn([pipeline EXCEPT
                                   !.log = Append(@, End("deleteFilesIfNeeded", ""))])
  /\ UNCHANGED checkoutVars
  /\ UNCHANGED historyVars
  /\ UNCHANGED laneVars
  /\ UNCHANGED mergerVars

\* lines 184-187
RemoveLocallyByIdsResolved ==
  /\ pc = "idle"
  /\ pipeline.phase = "removeLocallyByIds"
  /\ pipeline' = [pipeline EXCEPT !.phase = "returned",
                                  !.log = Append(@, End("removeLocallyByIds", ""))]
  /\ UNCHANGED checkoutVars
  /\ UNCHANGED historyVars
  /\ UNCHANGED laneVars
  /\ UNCHANGED mergerVars

NextPipeline ==
  \/ CheckoutStarts
  \/ ImportManyResolved
  \/ GetMergeStatusSettled
  \/ PromiseAllResolved
  \/ TmpClearResolved
  \/ ApplyVersionStarts
  \/ ApplyVersionResolved
  \/ MapSeriesResolved
  \/ WriteManyResolved
  \/ DeleteFilesIfNeededResolved
  \/ RemoveLocallyByIdsResolved

SpecPipeline == InitHistory /\ [][NextPipeline]_vars

\* the steps of checkout, phase by phase
PhaseOf(step) ==
  CASE step = "importManyIfMissingWithoutDeps" -> 1
    [] step = "getMergeStatus" -> 2
    [] step = "applyVersion" -> 3
    [] step \in {"writeMany", "deleteFilesIfNeeded"} -> 4
    [] step = "removeLocallyByIds" -> 5
    [] OTHER -> 0

\* position k of the log is the beginning of a step of a phase
BeginsPhase(k, phase) ==
  pipeline.log[k][1] = "begin" /\ PhaseOf(pipeline.log[k][2]) = phase

\* every step of a phase begun before position k has ended before k, and
\* nothing of that phase happens after k
PhaseOverAt(k, phase) ==
  /\ \A i \in 1..(k - 1) :
       BeginsPhase(i, phase) =>
         \E j \in (i + 1)..(k - 1) :
           pipeline.log[j] = End(pipeline.log[i][2], pipeline.log[i][3])
  /\ \A j \in (k + 1)..Len(pipeline.log) : PhaseOf(pipeline.log[j][2]) # phase

\* C34: within one checkout the import of the missing versions completes
\* before any merge starts, all merges complete before the first applyVersion
\* starts, all applyVersion calls complete before writeMany starts, and
\* removeLocallyByIds starts only after writeMany and deleteFilesIfNeeded have
\* completed: no step of a phase begins before every step of the phases before
\* it has ended, and none of these happens after it.
C34_PipelineOrder ==
  \A k \in 1..Len(pipeline.log) :
    \A later \in 2..5 :
      BeginsPhase(k, later) => \A earlier \in 1..(later - 1) : PhaseOverAt(k, earlier)

\* two components were merged, their merges ended in the other order, both
\* were applied and written and a third step removed nothing: checkout returned
C34_Witness ==
  /\ pipeline.phase = "returned"
  /\ \E i, j \in 1..Len(pipeline.log) :
       /\ i < j
       /\ pipeline.log[i] = End("getMergeStatus", "c2")
       /\ pipeline.log[j] = End("getMergeStatus", "c1")
  /\ \E k \in 1..Len(pipeline.log) : pipeline.log[k] = End("writeMany", "")
  /\ Len(pipeline.applied) = 2

\* control is inside getComponentsStatusOfMergeNeeded (lines 100-110)
InMergeStep == pipeline.phase \in {"Promise.all", "try: tmp.clear", "catch: tmp.clear"}

\* the getMergeStatus calls that have rejected so far, in the order they did
Rejections ==
  SelectSeq(pipeline.log, LAMBDA e : e[1] = "fail" /\ e[2] = "getMergeStatus")

\* C35: the Tmp made for the merge step is released on every exit path of the
\* step: once control has left the step, tmp.clear() has been called and has
\* completed, on success as well as when one or several getMergeStatus calls
\* reject, and after a rejection the error thrown is the one of the first
\* rejection, thrown after the release.
C35_TmpReleased ==
  (pipeline.tmp # "none" /\ ~InMergeStep) =>
    /\ pipeline.tmp = "cleared"
    /\ \E i, j \in 1..Len(pipeline.log) :
         /\ i < j
         /\ pipeline.log[i] = Begin("tmp.clear", "")
         /\ pipeline.log[j] = End("tmp.clear", "")
    /\ Cardinality({k \in 1..Len(pipeline.log) : pipeline.log[k][2] = "tmp.clear"}) = 2
    /\ Rejections # <<>> =>
         /\ pipeline.phase = "thrown"
         /\ pipeline.error = Rejections[1][3]

\* both getMergeStatus calls rejected, the second one after the catch block
\* had begun, and checkout has thrown the first error with the Tmp cleared
C35_Witness ==
  /\ pipeline.phase = "thrown"
  /\ Len(Rejections) = 2
  /\ pipeline.error = Rejections[1][3]
  /\ pipeline.tmp = "cleared"

\* ---------------------------------------------------------------------------
\* C36
\* ---------------------------------------------------------------------------

changeName(l, name) == [l EXCEPT !.name = name, !.hasChanged = TRUE]

changeScope(l, scope) == [l EXCEPT !.scope = scope, !.hasChanged = TRUE]

\* the name changeName is called with: a new one for the lanes made as "main"
\* or "master", its own for the others
NewLaneNames == {"dev"}

\* the scopes changeScope is called with
NewLaneScopes == {"other.scope"}

ChangeName ==
  /\ pc = "idle"
  /\ lane.exists
  /\ \E name \in NewLaneNames : lane' = changeName(lane, name)
  /\ laneCall' = [NoLaneCall EXCEPT !.op = "changeName"]
  /\ UNCHANGED laneChecks
  /\ UNCHANGED checkoutVars
  /\ UNCHANGED historyVars
  /\ UNCHANGED mergerVars
  /\ UNCHANGED pipelineVars

ChangeScope ==
  /\ pc = "idle"
  /\ lane.exists
  /\ \E scope \in NewLaneScopes : lane' = changeScope(lane, scope)
  /\ laneCall' = [NoLaneCall EXCEPT !.op = "changeScope"]
  /\ UNCHANGED laneChecks
  /\ UNCHANGED checkoutVars
  /\ UNCHANGED historyVars
  /\ UNCHANGED mergerVars
  /\ UNCHANGED pipelineVars

NextLaneChanged ==
  \/ LaneCreate
  \/ LaneParse
  \/ ChangeName
  \/ ChangeScope
  \/ AddComponent
  \/ RemoveComponent
  \/ SetLaneComponents
  \/ SetReadmeComponent

SpecLaneChanged == InitHistory /\ [][NextLaneChanged]_vars

\* the step is a call on the instance: Lane.create and Lane.parse make a new one
OnSameInstance == lane.exists /\ lane'.exists /\ laneCall'.op \notin {"create", "parse"}

C36_HasChangedStep ==
  OnSameInstance =>
    /\ toObject(lane') # toObject(lane) => lane'.hasChanged
    /\ lane.hasChanged => lane'.hasChanged

\* C36: whenever a call on a Lane (changeName, changeScope, addComponent,
\* removeComponent, setLaneComponents, setReadmeComponent) leaves a toObject()
\* other than the one before the call, hasChanged is true after it, and no
\* call on an instance brings hasChanged from true back to false; this holds
\* as well when readmeComponent is the very object of a lane component whose
\* head addComponent replaces.
C36_HasChanged == [][C36_HasChangedStep]_vars

\* a parsed lane whose readmeComponent is one of its components, after
\* addComponent has put another head on that component: the head of
\* readmeComponent followed, and the lane is marked as changed
C36_Witness ==
  /\ lane.exists
  /\ ~lane.isNew
  /\ laneCall.op = "addComponent"
  /\ lane.readmeComponent.defined
  /\ lane.readmeComponent.aliasOf > 0
  /\ lane.readmeComponent.head = laneCall.head
  /\ lane.hasChanged
  /\ lane.scope = "other.scope"

\* ---------------------------------------------------------------------------
\* C37
\* ---------------------------------------------------------------------------

\* histories built by addFromVersionsObjects and merge, with refs memoized as
\* complete in between
NextMergeFrame == AddFromVersionsObjects \/ Merge \/ IsGraphCompleteSince

SpecMergeFrame == InitHistory /\ [][NextMergeFrame]_vars

\* what merge(other) is to leave in after, given the entries before
MergedAsStated(before, other, after) ==
  /\ Range(hashesOf(after)) = Range(hashesOf(before)) \cup Range(hashesOf(other))
  /\ \A i \in 1..Len(after) :
       IF hasHash(other, after[i].hash)
         THEN after[i] = getVersionData(other, after[i].hash)
         ELSE after[i] = getVersionData(before, after[i].hash)

C37_MergeStep ==
  lastCall'.op = "merge" =>
    /\ \A other \in Batches :
         (hashesOf(other) = lastCall'.hashes /\ versions' = merge(versions, other))
           => MergedAsStated(versions, other, versions')
    /\ graphCompleteRefs' = graphCompleteRefs
    /\ hasChanged' = hasChanged

====
